---- MODULE Spec2Model ----
(***************************************************************************)
(* Seattle-To-Know: the event aggregation pipeline, the provider adapters  *)
(* and the cached request handlers, as state machines.                     *)
(*                                                                         *)
(* Python strings are sequences of Unicode code points, so that lower(),   *)
(* strip(), the `in` substring test, slicing and the ordering used by      *)
(* list.sort are computed as Python computes them.                         *)
(***************************************************************************)
EXTENDS Integers, Sequences, FiniteSets, TLC

\* ------------------------------------------------------------------------
\* Python values
\* ------------------------------------------------------------------------

\* Python's None: a value no str equals (code points are naturals).
None == <<-1>>

\* A dict key that is absent (dict.get then yields its default).
NoKey == <<-2>>

\* str.lower() on one code point (the texts here are ASCII plus U+2013).
LowerChar(c) == IF c >= 65 /\ c <= 90 THEN c + 32 ELSE c

\* str.lower()
Lower(s) == [i \in 1..Len(s) |-> LowerChar(s[i])]

\* ASCII whitespace, as str.strip() removes it.
IsSpace(c) == c \in {9, 10, 11, 12, 13, 32}

\* str.strip()
Strip(s) ==
  LET keep == {i \in 1..Len(s) : ~IsSpace(s[i])}
  IN  IF keep = {} THEN <<>>
      ELSE LET lo == CHOOSE i \in keep : \A j \in keep : i <= j
               hi == CHOOSE i \in keep : \A j \in keep : i >= j
           IN  SubSeq(s, lo, hi)

\* `k in s` for two str values: k occurs in s as a contiguous substring.
Contains(k, s) ==
  \E i \in 1..(Len(s) - Len(k) + 1) : \A j \in 1..Len(k) : s[i + j - 1] = k[j]

\* a < b for two str values (code point order, a proper prefix is smaller).
StrLess(a, b) ==
  \E i \in 1..(Len(b)) :
     /\ \A j \in 1..(i - 1) : j <= Len(a) /\ a[j] = b[j]
     /\ Len(a) >= i - 1
     /\ (Len(a) = i - 1 \/ a[i] < b[i])

\* s[lo:hi] with 0 <= lo, 0 <= hi: Python clamps both ends to len(s).
Slice(s, lo, hi) ==
  LET h == IF hi > Len(s) THEN Len(s) ELSE hi
  IN  IF lo >= h THEN <<>> ELSE SubSeq(s, lo + 1, h)

\* Truthiness of an optional str: None, an absent key's "" and "" are falsy.
Truthy(s) == s # None /\ s # NoKey /\ s # <<>>

\* The value returned by a call: a list, or an exception that escaped it.
Returned(evs) == [exc |-> "", events |-> evs]
Raised(e) == [exc |-> e, events |-> <<>>]

\* ------------------------------------------------------------------------
\* Text constants
\* ------------------------------------------------------------------------

\* "Seattle"
Seattle == <<83, 101, 97, 116, 116, 108, 101>>
\* "Event"
EventStr == <<69, 118, 101, 110, 116>>
\* "Untitled Event"
UntitledEvent == <<85, 110, 116, 105, 116, 108, 101, 100, 32, 69, 118, 101, 110, 116>>
\* "Ticketmaster"
Ticketmaster == <<84, 105, 99, 107, 101, 116, 109, 97, 115, 116, 101, 114>>
\* "SeatGeek"
SeatGeek == <<83, 101, 97, 116, 71, 101, 101, 107>>
\* "TBD"
TBD == <<84, 66, 68>>
\* date.today().strftime("%b %d, %Y") on the day of the run: "Jan 15, 2024"
today_str == <<74, 97, 110, 32, 49, 53, 44, 32, 50, 48, 50, 52>>

\* EVENT_TYPE_TO_CATEGORY: <<event type, Eventbrite category id>> pairs.
EVENT_TYPE_TO_CATEGORY ==
  <<
  \* music: 103
     << <<109, 117, 115, 105, 99>>, <<49, 48, 51>> >>,
  \* food: 110
     << <<102, 111, 111, 100>>, <<49, 49, 48>> >>,
  \* sports: 108
     << <<115, 112, 111, 114, 116, 115>>, <<49, 48, 56>> >>,
  \* business: 101
     << <<98, 117, 115, 105, 110, 101, 115, 115>>, <<49, 48, 49>> >>,
  \* tech: 102
     << <<116, 101, 99, 104>>, <<49, 48, 50>> >>,
  \* arts: 105
     << <<97, 114, 116, 115>>, <<49, 48, 53>> >>,
  \* comedy: 104
     << <<99, 111, 109, 101, 100, 121>>, <<49, 48, 52>> >>,
  \* education: 109
     << <<101, 100, 117, 99, 97, 116, 105, 111, 110>>, <<49, 48, 57>> >>,
  \* health: 107
     << <<104, 101, 97, 108, 116, 104>>, <<49, 48, 55>> >>,
  \* fashion: 106
     << <<102, 97, 115, 104, 105, 111, 110>>, <<49, 48, 54>> >>
  >>

\* type_mappings of _filter_events_by_type: <<category, keywords>> pairs, as code points.
type_mappings ==
  <<
  \* music: music, concert, live music, jazz, rock, pop, indie
    <<<<109, 117, 115, 105, 99>>,
     <<<<109, 117, 115, 105, 99>>,
       <<99, 111, 110, 99, 101, 114, 116>>,
       <<108, 105, 118, 101, 32, 109, 117, 115, 105, 99>>,
       <<106, 97, 122, 122>>,
       <<114, 111, 99, 107>>,
       <<112, 111, 112>>,
       <<105, 110, 100, 105, 101>>>> >>,
  \* sports: sports, game, match, mariners, sounders, kraken, seahawks
    <<<<115, 112, 111, 114, 116, 115>>,
     <<<<115, 112, 111, 114, 116, 115>>,
       <<103, 97, 109, 101>>,
       <<109, 97, 116, 99, 104>>,
       <<109, 97, 114, 105, 110, 101, 114, 115>>,
       <<115, 111, 117, 110, 100, 101, 114, 115>>,
       <<107, 114, 97, 107, 101, 110>>,
       <<115, 101, 97, 104, 97, 119, 107, 115>>>> >>,
  \* arts: arts, art, gallery, theater, theatre, symphony, performance
    <<<<97, 114, 116, 115>>,
     <<<<97, 114, 116, 115>>,
       <<97, 114, 116>>,
       <<103, 97, 108, 108, 101, 114, 121>>,
       <<116, 104, 101, 97, 116, 101, 114>>,
       <<116, 104, 101, 97, 116, 114, 101>>,
       <<115, 121, 109, 112, 104, 111, 110, 121>>,
       <<112, 101, 114, 102, 111, 114, 109, 97, 110, 99, 101>>>> >>,
  \* comedy: comedy, stand-up, standup, humor, humour
    <<<<99, 111, 109, 101, 100, 121>>,
     <<<<99, 111, 109, 101, 100, 121>>,
       <<115, 116, 97, 110, 100, 45, 117, 112>>,
       <<115, 116, 97, 110, 100, 117, 112>>,
       <<104, 117, 109, 111, 114>>,
       <<104, 117, 109, 111, 117, 114>>>> >>,
  \* tech: tech, technology, startup, ai, software, coding, developer
    <<<<116, 101, 99, 104>>,
     <<<<116, 101, 99, 104>>,
       <<116, 101, 99, 104, 110, 111, 108, 111, 103, 121>>,
       <<115, 116, 97, 114, 116, 117, 112>>,
       <<97, 105>>,
       <<115, 111, 102, 116, 119, 97, 114, 101>>,
       <<99, 111, 100, 105, 110, 103>>,
       <<100, 101, 118, 101, 108, 111, 112, 101, 114>>>> >>,
  \* food: food, wine, dining, culinary, tasting, cooking
    <<<<102, 111, 111, 100>>,
     <<<<102, 111, 111, 100>>,
       <<119, 105, 110, 101>>,
       <<100, 105, 110, 105, 110, 103>>,
       <<99, 117, 108, 105, 110, 97, 114, 121>>,
       <<116, 97, 115, 116, 105, 110, 103>>,
       <<99, 111, 111, 107, 105, 110, 103>>>> >>,
  \* business: business, networking, entrepreneur, startup
    <<<<98, 117, 115, 105, 110, 101, 115, 115>>,
     <<<<98, 117, 115, 105, 110, 101, 115, 115>>,
       <<110, 101, 116, 119, 111, 114, 107, 105, 110, 103>>,
       <<101, 110, 116, 114, 101, 112, 114, 101, 110, 101, 117, 114>>,
       <<115, 116, 97, 114, 116, 117, 112>>>> >>,
  \* health: health, fitness, yoga, wellness, running, exercise
    <<<<104, 101, 97, 108, 116, 104>>,
     <<<<104, 101, 97, 108, 116, 104>>,
       <<102, 105, 116, 110, 101, 115, 115>>,
       <<121, 111, 103, 97>>,
       <<119, 101, 108, 108, 110, 101, 115, 115>>,
       <<114, 117, 110, 110, 105, 110, 103>>,
       <<101, 120, 101, 114, 99, 105, 115, 101>>>> >>,
  \* education: education, learning, workshop, seminar, class
    <<<<101, 100, 117, 99, 97, 116, 105, 111, 110>>,
     <<<<101, 100, 117, 99, 97, 116, 105, 111, 110>>,
       <<108, 101, 97, 114, 110, 105, 110, 103>>,
       <<119, 111, 114, 107, 115, 104, 111, 112>>,
       <<115, 101, 109, 105, 110, 97, 114>>,
       <<99, 108, 97, 115, 115>>>> >>,
  \* fashion: fashion, style, clothing, design
    <<<<102, 97, 115, 104, 105, 111, 110>>,
     <<<<102, 97, 115, 104, 105, 111, 110>>,
       <<115, 116, 121, 108, 101>>,
       <<99, 108, 111, 116, 104, 105, 110, 103>>,
       <<100, 101, 115, 105, 103, 110>>>> >>
  >>

\* The static list of _get_placeholder_events, in source order.
placeholder_events ==
  <<
  \* Capitol Hill Art Walk | 6–9 PM | Capitol Hill | Arts | https://www.eventbrite.com
  [name |-> <<67, 97, 112, 105, 116, 111, 108, 32, 72, 105, 108, 108, 32, 65, 114, 116, 32, 87, 97, 108, 107>>,
   time |-> <<54, 8211, 57, 32, 80, 77>>,
   date |-> today_str,
   area |-> <<67, 97, 112, 105, 116, 111, 108, 32, 72, 105, 108, 108>>,
   type |-> <<65, 114, 116, 115>>,
   url |-> <<104, 116, 116, 112, 115, 58, 47, 47, 119, 119, 119, 46, 101, 118, 101, 110, 116, 98, 114, 105, 116, 101, 46, 99, 111, 109>>,
   source |-> NoKey],
  \* Live Jazz at Pike Place | 7 PM | Downtown | Music | https://www.eventbrite.com
  [name |-> <<76, 105, 118, 101, 32, 74, 97, 122, 122, 32, 97, 116, 32, 80, 105, 107, 101, 32, 80, 108, 97, 99, 101>>,
   time |-> <<55, 32, 80, 77>>,
   date |-> today_str,
   area |-> <<68, 111, 119, 110, 116, 111, 119, 110>>,
   type |-> <<77, 117, 115, 105, 99>>,
   url |-> <<104, 116, 116, 112, 115, 58, 47, 47, 119, 119, 119, 46, 101, 118, 101, 110, 116, 98, 114, 105, 116, 101, 46, 99, 111, 109>>,
   source |-> NoKey],
  \* Seattle Mariners Game | 7:10 PM | Sodo | Sports | https://www.mlb.com/mariners
  [name |-> <<83, 101, 97, 116, 116, 108, 101, 32, 77, 97, 114, 105, 110, 101, 114, 115, 32, 71, 97, 109, 101>>,
   time |-> <<55, 58, 49, 48, 32, 80, 77>>,
   date |-> today_str,
   area |-> <<83, 111, 100, 111>>,
   type |-> <<83, 112, 111, 114, 116, 115>>,
   url |-> <<104, 116, 116, 112, 115, 58, 47, 47, 119, 119, 119, 46, 109, 108, 98, 46, 99, 111, 109, 47, 109, 97, 114, 105, 110, 101, 114, 115>>,
   source |-> NoKey],
  \* Tech Meetup at WeWork | 6 PM | Downtown | Tech | https://www.eventbrite.com
  [name |-> <<84, 101, 99, 104, 32, 77, 101, 101, 116, 117, 112, 32, 97, 116, 32, 87, 101, 87, 111, 114, 107>>,
   time |-> <<54, 32, 80, 77>>,
   date |-> today_str,
   area |-> <<68, 111, 119, 110, 116, 111, 119, 110>>,
   type |-> <<84, 101, 99, 104>>,
   url |-> <<104, 116, 116, 112, 115, 58, 47, 47, 119, 119, 119, 46, 101, 118, 101, 110, 116, 98, 114, 105, 116, 101, 46, 99, 111, 109>>,
   source |-> NoKey],
  \* Comedy Night at The Comedy Underground | 8 PM | Pioneer Square | Comedy | https://www.eventbrite.com
  [name |-> <<67, 111, 109, 101, 100, 121, 32, 78, 105, 103, 104, 116, 32, 97, 116, 32, 84, 104, 101, 32, 67, 111, 109, 101, 100, 121, 32, 85, 110, 100, 101, 114, 103, 114, 111, 117, 110, 100>>,
   time |-> <<56, 32, 80, 77>>,
   date |-> today_str,
   area |-> <<80, 105, 111, 110, 101, 101, 114, 32, 83, 113, 117, 97, 114, 101>>,
   type |-> <<67, 111, 109, 101, 100, 121>>,
   url |-> <<104, 116, 116, 112, 115, 58, 47, 47, 119, 119, 119, 46, 101, 118, 101, 110, 116, 98, 114, 105, 116, 101, 46, 99, 111, 109>>,
   source |-> NoKey],
  \* Food & Wine Festival | 12 PM | South Lake Union | Food | https://www.eventbrite.com
  [name |-> <<70, 111, 111, 100, 32, 38, 32, 87, 105, 110, 101, 32, 70, 101, 115, 116, 105, 118, 97, 108>>,
   time |-> <<49, 50, 32, 80, 77>>,
   date |-> today_str,
   area |-> <<83, 111, 117, 116, 104, 32, 76, 97, 107, 101, 32, 85, 110, 105, 111, 110>>,
   type |-> <<70, 111, 111, 100>>,
   url |-> <<104, 116, 116, 112, 115, 58, 47, 47, 119, 119, 119, 46, 101, 118, 101, 110, 116, 98, 114, 105, 116, 101, 46, 99, 111, 109>>,
   source |-> NoKey],
  \* Yoga in the Park | 9 AM | Green Lake | Health | https://www.eventbrite.com
  [name |-> <<89, 111, 103, 97, 32, 105, 110, 32, 116, 104, 101, 32, 80, 97, 114, 107>>,
   time |-> <<57, 32, 65, 77>>,
   date |-> today_str,
   area |-> <<71, 114, 101, 101, 110, 32, 76, 97, 107, 101>>,
   type |-> <<72, 101, 97, 108, 116, 104>>,
   url |-> <<104, 116, 116, 112, 115, 58, 47, 47, 119, 119, 119, 46, 101, 118, 101, 110, 116, 98, 114, 105, 116, 101, 46, 99, 111, 109>>,
   source |-> NoKey],
  \* Seattle Symphony Performance | 7:30 PM | Downtown | Arts | https://www.seattlesymphony.org
  [name |-> <<83, 101, 97, 116, 116, 108, 101, 32, 83, 121, 109, 112, 104, 111, 110, 121, 32, 80, 101, 114, 102, 111, 114, 109, 97, 110, 99, 101>>,
   time |-> <<55, 58, 51, 48, 32, 80, 77>>,
   date |-> today_str,
   area |-> <<68, 111, 119, 110, 116, 111, 119, 110>>,
   type |-> <<65, 114, 116, 115>>,
   url |-> <<104, 116, 116, 112, 115, 58, 47, 47, 119, 119, 119, 46, 115, 101, 97, 116, 116, 108, 101, 115, 121, 109, 112, 104, 111, 110, 121, 46, 111, 114, 103>>,
   source |-> NoKey],
  \* Startup Networking Event | 5:30 PM | Capitol Hill | Business | https://www.eventbrite.com
  [name |-> <<83, 116, 97, 114, 116, 117, 112, 32, 78, 101, 116, 119, 111, 114, 107, 105, 110, 103, 32, 69, 118, 101, 110, 116>>,
   time |-> <<53, 58, 51, 48, 32, 80, 77>>,
   date |-> today_str,
   area |-> <<67, 97, 112, 105, 116, 111, 108, 32, 72, 105, 108, 108>>,
   type |-> <<66, 117, 115, 105, 110, 101, 115, 115>>,
   url |-> <<104, 116, 116, 112, 115, 58, 47, 47, 119, 119, 119, 46, 101, 118, 101, 110, 116, 98, 114, 105, 116, 101, 46, 99, 111, 109>>,
   source |-> NoKey],
  \* Fremont Street Fair | 10 AM | Fremont | Arts | https://www.eventbrite.com
  [name |-> <<70, 114, 101, 109, 111, 110, 116, 32, 83, 116, 114, 101, 101, 116, 32, 70, 97, 105, 114>>,
   time |-> <<49, 48, 32, 65, 77>>,
   date |-> today_str,
   area |-> <<70, 114, 101, 109, 111, 110, 116>>,
   type |-> <<65, 114, 116, 115>>,
   url |-> <<104, 116, 116, 112, 115, 58, 47, 47, 119, 119, 119, 46, 101, 118, 101, 110, 116, 98, 114, 105, 116, 101, 46, 99, 111, 109>>,
   source |-> NoKey],
  \* Seattle Sounders FC Match | 7:30 PM | Sodo | Sports | https://www.soundersfc.com
  [name |-> <<83, 101, 97, 116, 116, 108, 101, 32, 83, 111, 117, 110, 100, 101, 114, 115, 32, 70, 67, 32, 77, 97, 116, 99, 104>>,
   time |-> <<55, 58, 51, 48, 32, 80, 77>>,
   date |-> today_str,
   area |-> <<83, 111, 100, 111>>,
   type |-> <<83, 112, 111, 114, 116, 115>>,
   url |-> <<104, 116, 116, 112, 115, 58, 47, 47, 119, 119, 119, 46, 115, 111, 117, 110, 100, 101, 114, 115, 102, 99, 46, 99, 111, 109>>,
   source |-> NoKey],
  \* Cooking Class at Sur La Table | 6 PM | Downtown | Food | https://www.eventbrite.com
  [name |-> <<67, 111, 111, 107, 105, 110, 103, 32, 67, 108, 97, 115, 115, 32, 97, 116, 32, 83, 117, 114, 32, 76, 97, 32, 84, 97, 98, 108, 101>>,
   time |-> <<54, 32, 80, 77>>,
   date |-> today_str,
   area |-> <<68, 111, 119, 110, 116, 111, 119, 110>>,
   type |-> <<70, 111, 111, 100>>,
   url |-> <<104, 116, 116, 112, 115, 58, 47, 47, 119, 119, 119, 46, 101, 118, 101, 110, 116, 98, 114, 105, 116, 101, 46, 99, 111, 109>>,
   source |-> NoKey],
  \* Indie Music Showcase | 8 PM | Capitol Hill | Music | https://www.eventbrite.com
  [name |-> <<73, 110, 100, 105, 101, 32, 77, 117, 115, 105, 99, 32, 83, 104, 111, 119, 99, 97, 115, 101>>,
   time |-> <<56, 32, 80, 77>>,
   date |-> today_str,
   area |-> <<67, 97, 112, 105, 116, 111, 108, 32, 72, 105, 108, 108>>,
   type |-> <<77, 117, 115, 105, 99>>,
   url |-> <<104, 116, 116, 112, 115, 58, 47, 47, 119, 119, 119, 46, 101, 118, 101, 110, 116, 98, 114, 105, 116, 101, 46, 99, 111, 109>>,
   source |-> NoKey],
  \* Art Gallery Opening | 5 PM | Pioneer Square | Arts | https://www.eventbrite.com
  [name |-> <<65, 114, 116, 32, 71, 97, 108, 108, 101, 114, 121, 32, 79, 112, 101, 110, 105, 110, 103>>,
   time |-> <<53, 32, 80, 77>>,
   date |-> today_str,
   area |-> <<80, 105, 111, 110, 101, 101, 114, 32, 83, 113, 117, 97, 114, 101>>,
   type |-> <<65, 114, 116, 115>>,
   url |-> <<104, 116, 116, 112, 115, 58, 47, 47, 119, 119, 119, 46, 101, 118, 101, 110, 116, 98, 114, 105, 116, 101, 46, 99, 111, 109>>,
   source |-> NoKey],
  \* Tech Talk: AI in Healthcare | 6:30 PM | South Lake Union | Tech | https://www.eventbrite.com
  [name |-> <<84, 101, 99, 104, 32, 84, 97, 108, 107, 58, 32, 65, 73, 32, 105, 110, 32, 72, 101, 97, 108, 116, 104, 99, 97, 114, 101>>,
   time |-> <<54, 58, 51, 48, 32, 80, 77>>,
   date |-> today_str,
   area |-> <<83, 111, 117, 116, 104, 32, 76, 97, 107, 101, 32, 85, 110, 105, 111, 110>>,
   type |-> <<84, 101, 99, 104>>,
   url |-> <<104, 116, 116, 112, 115, 58, 47, 47, 119, 119, 119, 46, 101, 118, 101, 110, 116, 98, 114, 105, 116, 101, 46, 99, 111, 109>>,
   source |-> NoKey],
  \* Seattle Kraken Hockey Game | 7 PM | Uptown | Sports | https://www.nhl.com/kraken
  [name |-> <<83, 101, 97, 116, 116, 108, 101, 32, 75, 114, 97, 107, 101, 110, 32, 72, 111, 99, 107, 101, 121, 32, 71, 97, 109, 101>>,
   time |-> <<55, 32, 80, 77>>,
   date |-> today_str,
   area |-> <<85, 112, 116, 111, 119, 110>>,
   type |-> <<83, 112, 111, 114, 116, 115>>,
   url |-> <<104, 116, 116, 112, 115, 58, 47, 47, 119, 119, 119, 46, 110, 104, 108, 46, 99, 111, 109, 47, 107, 114, 97, 107, 101, 110>>,
   source |-> NoKey],
  \* Wine Tasting Event | 5 PM | Queen Anne | Food | https://www.eventbrite.com
  [name |-> <<87, 105, 110, 101, 32, 84, 97, 115, 116, 105, 110, 103, 32, 69, 118, 101, 110, 116>>,
   time |-> <<53, 32, 80, 77>>,
   date |-> today_str,
   area |-> <<81, 117, 101, 101, 110, 32, 65, 110, 110, 101>>,
   type |-> <<70, 111, 111, 100>>,
   url |-> <<104, 116, 116, 112, 115, 58, 47, 47, 119, 119, 119, 46, 101, 118, 101, 110, 116, 98, 114, 105, 116, 101, 46, 99, 111, 109>>,
   source |-> NoKey],
  \* Stand-up Comedy Show | 9 PM | Capitol Hill | Comedy | https://www.eventbrite.com
  [name |-> <<83, 116, 97, 110, 100, 45, 117, 112, 32, 67, 111, 109, 101, 100, 121, 32, 83, 104, 111, 119>>,
   time |-> <<57, 32, 80, 77>>,
   date |-> today_str,
   area |-> <<67, 97, 112, 105, 116, 111, 108, 32, 72, 105, 108, 108>>,
   type |-> <<67, 111, 109, 101, 100, 121>>,
   url |-> <<104, 116, 116, 112, 115, 58, 47, 47, 119, 119, 119, 46, 101, 118, 101, 110, 116, 98, 114, 105, 116, 101, 46, 99, 111, 109>>,
   source |-> NoKey],
  \* Morning Run Club | 7 AM | Green Lake | Health | https://www.eventbrite.com
  [name |-> <<77, 111, 114, 110, 105, 110, 103, 32, 82, 117, 110, 32, 67, 108, 117, 98>>,
   time |-> <<55, 32, 65, 77>>,
   date |-> today_str,
   area |-> <<71, 114, 101, 101, 110, 32, 76, 97, 107, 101>>,
   type |-> <<72, 101, 97, 108, 116, 104>>,
   url |-> <<104, 116, 116, 112, 115, 58, 47, 47, 119, 119, 119, 46, 101, 118, 101, 110, 116, 98, 114, 105, 116, 101, 46, 99, 111, 109>>,
   source |-> NoKey],
  \* Business Networking Breakfast | 8 AM | Downtown | Business | https://www.eventbrite.com
  [name |-> <<66, 117, 115, 105, 110, 101, 115, 115, 32, 78, 101, 116, 119, 111, 114, 107, 105, 110, 103, 32, 66, 114, 101, 97, 107, 102, 97, 115, 116>>,
   time |-> <<56, 32, 65, 77>>,
   date |-> today_str,
   area |-> <<68, 111, 119, 110, 116, 111, 119, 110>>,
   type |-> <<66, 117, 115, 105, 110, 101, 115, 115>>,
   url |-> <<104, 116, 116, 112, 115, 58, 47, 47, 119, 119, 119, 46, 101, 118, 101, 110, 116, 98, 114, 105, 116, 101, 46, 99, 111, 109>>,
   source |-> NoKey]
  >>

\* ------------------------------------------------------------------------
\* Deduplication, sorting and the category post-filter
\* ------------------------------------------------------------------------
\* A value that is used more than once is bound by a quantifier or a set
\* constructor (x \in {e}), which evaluates it once.

\* dict.get(key, "") on a record field.
GetOrEmpty(v) == IF v = NoKey THEN <<>> ELSE v

\* The records of s at the indices K, in order.
AtIndices(s, K) ==
  [r \in 1..Cardinality(K) |-> s[CHOOSE i \in K : Cardinality({j \in K : j < i}) = r - 1]]

\* key = (event.get("name", "").lower().strip(), event.get("time", ""))
DedupKey(e) == <<Strip(Lower(GetOrEmpty(e.name))), GetOrEmpty(e.time)>>

\* A faulty variant of the loop of _deduplicate_events: the key is built
\* without strip(), so names that differ in outer whitespace are both kept.
DedupLoop_NoStrip(events) ==
  CHOOSE unique_events \in
    { AtIndices(events, {i \in 1..Len(events) : \A j \in 1..(i - 1) : keys[j] # keys[i]}) :
      keys \in {[i \in 1..Len(events) |->
                  <<Lower(GetOrEmpty(events[i].name)), GetOrEmpty(events[i].time)>>]} } : TRUE

\* A faulty variant of the loop of _deduplicate_events: the kept record's name
\* is overwritten with the normalised name of its key.
DedupLoop_Normalising(events) ==
  CHOOSE unique_events \in
    { [r \in 1..Len(kept) |-> [kept[r] EXCEPT !.name = DedupKey(kept[r])[1]]] :
      kept \in
        { AtIndices(events, {i \in 1..Len(events) : \A j \in 1..(i - 1) : keys[j] # keys[i]}) :
          keys \in {[i \in 1..Len(events) |-> DedupKey(events[i])]} } } : TRUE

\* The loop of _deduplicate_events: a record is appended when no earlier
\* record has its key (the first record seen for a key is kept).
DedupLoop(events) ==
  CHOOSE unique_events \in
    { AtIndices(events, {i \in 1..Len(events) : \A j \in 1..(i - 1) : keys[j] # keys[i]}) :
      keys \in {[i \in 1..Len(events) |-> DedupKey(events[i])]} } : TRUE

\* A faulty variant of the sort key's order: the tuple is (name, time).
SortKeyLess_NameFirst(x, y) ==
  IF GetOrEmpty(x.name) = GetOrEmpty(y.name)
  THEN StrLess(GetOrEmpty(x.time), GetOrEmpty(y.time))
  ELSE StrLess(GetOrEmpty(x.name), GetOrEmpty(y.name))

\* (x.get("time", ""), x.get("name", "")) < (the same of y), for keys whose
\* times are both None or both str: tuples compare by the first unequal item.
SortKeyLess(x, y) ==
  IF GetOrEmpty(x.time) = GetOrEmpty(y.time)
  THEN StrLess(GetOrEmpty(x.name), GetOrEmpty(y.name))
  ELSE StrLess(GetOrEmpty(x.time), GetOrEmpty(y.time))

\* A faulty variant of list.sort: ascending by time only, and records of equal
\* time come out in the reverse of their input order.
SortByTimeName_Unstable(events) ==
  CHOOSE sorted \in
    { [r \in 1..Len(events) |-> events[CHOOSE i \in 1..Len(events) : rank[i] = r]] :
      rank \in {[i \in 1..Len(events) |->
                   1 + Cardinality({j \in 1..Len(events) :
                         \/ StrLess(GetOrEmpty(events[j].time), GetOrEmpty(events[i].time))
                         \/ (j > i /\ GetOrEmpty(events[j].time) = GetOrEmpty(events[i].time))})]} } : TRUE

\* list.sort(key=...) is ascending and stable: a record's place is the number
\* of records smaller than it, or equal to it and earlier in the list.
SortByTimeName(events) ==
  CHOOSE sorted \in
    { [r \in 1..Len(events) |-> events[CHOOSE i \in 1..Len(events) : rank[i] = r]] :
      rank \in {[i \in 1..Len(events) |->
                   1 + Cardinality({j \in 1..Len(events) :
                         \/ SortKeyLess(events[j], events[i])
                         \/ (j < i /\ ~SortKeyLess(events[i], events[j]))})]} } : TRUE

\* list.sort compares a None time with a str time as soon as the list holds
\* both (any two neighbours of different kind are compared): TypeError.
MixedTimes(events) ==
  \E i, j \in 1..Len(events) :
     GetOrEmpty(events[i].time) = None /\ GetOrEmpty(events[j].time) # None

\* The body of _deduplicate_events once the loop has run.
SortUnique(unique_events) ==
  IF MixedTimes(unique_events)
  THEN Raised("TypeError")
  ELSE Returned(SortByTimeName(unique_events))

\* _deduplicate_events: None.lower() raises AttributeError.
_deduplicate_events(events) ==
  IF \E i \in 1..Len(events) : events[i].name = None
  THEN Raised("AttributeError")
  ELSE CHOOSE r \in {SortUnique(unique_events) : unique_events \in {DedupLoop(events)}} : TRUE

\* type_mappings.get(event_type_lower, [event_type_lower])
possible_matches(event_type_lower) ==
  IF \E i \in 1..Len(type_mappings) : type_mappings[i][1] = event_type_lower
  THEN type_mappings[CHOOSE i \in 1..Len(type_mappings) :
                        type_mappings[i][1] = event_type_lower][2]
  ELSE <<event_type_lower>>

\* The first test of the loop body: a keyword in the type text, or the type
\* text in a keyword.
TypeMatches(event, terms) ==
  \E event_type_str \in {Lower(GetOrEmpty(event.type))} :
     \E k \in 1..Len(terms) : \E match_term \in {terms[k]} :
        Contains(match_term, event_type_str) \/ Contains(event_type_str, match_term)

\* The second test, made only when the first fails: a keyword in the name.
NameMatches(event, terms) ==
  \E event_name \in {Lower(GetOrEmpty(event.name))} :
     \E k \in 1..Len(terms) : \E match_term \in {terms[k]} :
        Contains(match_term, event_name)

\* The loop of _filter_events_by_type: the records that match, in order.
FilterLoop(events, terms) ==
  AtIndices(events, {i \in 1..Len(events) :
                       \E event \in {events[i]} :
                          TypeMatches(event, terms) \/ NameMatches(event, terms)})

\* The loop raises AttributeError on a None type, or on a None name reached
\* by the second test.
FilterRaises(events, terms) ==
  \E i \in 1..Len(events) : \E event \in {events[i]} :
     \/ event.type = None
     \/ (event.name = None /\ ~TypeMatches(event, terms))

\* _filter_events_by_type
_filter_events_by_type(events, event_type) ==
  IF ~Truthy(event_type) THEN Returned(events)
  ELSE CHOOSE r \in
         { IF FilterRaises(events, terms) THEN Raised("AttributeError")
           ELSE Returned(FilterLoop(events, terms)) :
           terms \in {possible_matches(Strip(Lower(event_type)))} } : TRUE

\* _get_placeholder_events(limit): placeholder_events[:limit]
_get_placeholder_events(limit) == Slice(placeholder_events, 0, limit)

\* ------------------------------------------------------------------------
\* Start times: parsing and the 12-hour display string
\* ------------------------------------------------------------------------

IsDigit(c) == c >= 48 /\ c <= 57

\* The two-digit number at s[i], s[i+1] (1-based), both digits.
Num2(s, i) == (s[i] - 48) * 10 + (s[i + 1] - 48)

\* str(n) for 0 <= n <= 9999
IntStr(n) ==
  IF n < 10 THEN <<48 + n>>
  ELSE IF n < 100 THEN <<48 + (n \div 10), 48 + (n % 10)>>
  ELSE IF n < 1000 THEN <<48 + (n \div 100), 48 + ((n \div 10) % 10), 48 + (n % 10)>>
  ELSE <<48 + (n \div 1000), 48 + ((n \div 100) % 10), 48 + ((n \div 10) % 10), 48 + (n % 10)>>

\* s.replace("Z", "+00:00")
RECURSIVE ReplaceZ(_)
ReplaceZ(s) ==
  IF s = <<>> THEN <<>>
  ELSE (IF Head(s) = 90 THEN <<43, 48, 48, 58, 48, 48>> ELSE <<Head(s)>>)
       \o ReplaceZ(Tail(s))

DaysInMonth(y, m) ==
  IF m \in {4, 6, 9, 11} THEN 30
  ELSE IF m = 2
       THEN (IF (y % 4 = 0 /\ y % 100 # 0) \/ y % 400 = 0 THEN 29 ELSE 28)
       ELSE 31

\* "YYYY-MM-DD" at the head of s names a calendar date.
DateAt(s) ==
  /\ Len(s) >= 10
  /\ \A i \in {1, 2, 3, 4, 6, 7, 9, 10} : IsDigit(s[i])
  /\ s[5] = 45 /\ s[8] = 45
  /\ Num2(s, 1) * 100 + Num2(s, 3) >= 1
  /\ Num2(s, 6) \in 1..12
  /\ Num2(s, 9) >= 1
  /\ Num2(s, 9) <= DaysInMonth(Num2(s, 1) * 100 + Num2(s, 3), Num2(s, 6))

\* "HH", "HH:MM" or "HH:MM:SS" at s[i..i+n-1], n in {2, 5, 8}.
ClockAt(s, i, n) ==
  /\ IsDigit(s[i]) /\ IsDigit(s[i + 1]) /\ Num2(s, i) <= 23
  /\ n >= 5 => (s[i + 2] = 58 /\ IsDigit(s[i + 3]) /\ IsDigit(s[i + 4])
                /\ Num2(s, i + 3) <= 59)
  /\ n >= 8 => (s[i + 5] = 58 /\ IsDigit(s[i + 6]) /\ IsDigit(s[i + 7])
                /\ Num2(s, i + 6) <= 59)

\* A UTC offset "+HH:MM" or "-HH:MM" at s[i..i+5].
OffsetAt(s, i) ==
  /\ s[i] \in {43, 45}
  /\ IsDigit(s[i + 1]) /\ IsDigit(s[i + 2]) /\ Num2(s, i + 1) <= 23
  /\ s[i + 3] = 58
  /\ IsDigit(s[i + 4]) /\ IsDigit(s[i + 5]) /\ Num2(s, i + 4) <= 59

\* datetime.fromisoformat(s) on the forms every CPython accepts without
\* fractional seconds: a date, then optionally one separator character, a
\* clock of 2, 5 or 8 characters and an offset.  ok = FALSE is ValueError.
fromisoformat(s) ==
  LET n == Len(s)
      clock == IF n \in {13, 19} THEN n - 11
               ELSE IF n \in {16, 22} THEN 5
               ELSE IF n = 25 THEN 8 ELSE 0
      shape == \/ n = 10
               \/ (n \in {13, 16, 19} /\ ClockAt(s, 12, clock))
               \/ (n \in {22, 25} /\ ClockAt(s, 12, clock) /\ OffsetAt(s, n - 5))
  IN  IF DateAt(s) /\ shape
      THEN [ok |-> TRUE, year |-> Num2(s, 1) * 100 + Num2(s, 3),
            month |-> Num2(s, 6), day |-> Num2(s, 9),
            hour |-> IF n = 10 THEN 0 ELSE Num2(s, 12)]
      ELSE [ok |-> FALSE, year |-> 0, month |-> 0, day |-> 0, hour |-> 0]

\* datetime.strptime(s, "%Y-%m-%d") on zero-padded input.
strptime_date(s) ==
  IF Len(s) = 10 /\ DateAt(s)
  THEN [ok |-> TRUE, year |-> Num2(s, 1) * 100 + Num2(s, 3),
        month |-> Num2(s, 6), day |-> Num2(s, 9), hour |-> 0]
  ELSE [ok |-> FALSE, year |-> 0, month |-> 0, day |-> 0, hour |-> 0]

\* datetime.strptime(s, "%H:%M:%S") on zero-padded input.
strptime_time(s) ==
  IF Len(s) = 8 /\ ClockAt(s, 1, 8)
  THEN [ok |-> TRUE, year |-> 1900, month |-> 1, day |-> 1, hour |-> Num2(s, 1)]
  ELSE [ok |-> FALSE, year |-> 0, month |-> 0, day |-> 0, hour |-> 0]

\* The hour branches without the one for noon.
FormatHour_NoNoon(hour) ==
  IF hour = 0 THEN <<49, 50, 32, 65, 77>>
  ELSE IF hour < 12 THEN IntStr(hour) \o <<32, 65, 77>>
  ELSE IntStr(hour - 12) \o <<32, 80, 77>>

\* The hour branches shared by the three adapters:
\* 0 -> "12 AM", 1..11 -> "{h} AM", 12 -> "12 PM", 13..23 -> "{h-12} PM".
FormatHour(hour) ==
  IF hour = 0 THEN <<49, 50, 32, 65, 77>>
  ELSE IF hour < 12 THEN IntStr(hour) \o <<32, 65, 77>>
  ELSE IF hour = 12 THEN <<49, 50, 32, 80, 77>>
  ELSE IntStr(hour - 12) \o <<32, 80, 77>>

MonthAbbr ==
  << <<74, 97, 110>>, <<70, 101, 98>>, <<77, 97, 114>>, <<65, 112, 114>>,
     <<77, 97, 121>>, <<74, 117, 110>>, <<74, 117, 108>>, <<65, 117, 103>>,
     <<83, 101, 112>>, <<79, 99, 116>>, <<78, 111, 118>>, <<68, 101, 99>> >>

\* dt.strftime("%b %d, %Y"), e.g. "Jan 15, 2024" (four-digit years).
FormatDate(dt) ==
  MonthAbbr[dt.month] \o <<32>>
  \o (IF dt.day < 10 THEN <<48>> ELSE <<>>) \o IntStr(dt.day)
  \o <<44, 32>> \o IntStr(dt.year)

\* The except branch of the Eventbrite and SeatGeek parsers:
\* start_time[11:16] if len(start_time) > 16 else start_time[:5], from 5 chars.
ExtractTime(start_time) ==
  IF Len(start_time) >= 5
  THEN (IF Len(start_time) > 16 THEN Slice(start_time, 11, 16)
        ELSE Slice(start_time, 0, 5))
  ELSE None

\* time_str and date_str of the Eventbrite and SeatGeek adapters.
ParseStart(start_time) ==
  IF ~Truthy(start_time) THEN [time |-> None, date |-> None]
  ELSE CHOOSE parsed \in
         { IF dt.ok
           THEN [time |-> FormatHour(dt.hour), date |-> FormatDate(dt)]
           ELSE [time |-> ExtractTime(start_time), date |-> None] :
           dt \in {fromisoformat(clean) : clean \in {ReplaceZ(start_time)}} } : TRUE

\* ------------------------------------------------------------------------
\* Provider adapters
\* ------------------------------------------------------------------------
\* A provider's answer to requests.get is [kind, events]:
\*   "timeout", "conn_error"  requests.get raises a RequestException
\*   "http_404", "http_401", "http_500"  a non-2xx status
\*   "not_json"    response.json() raises
\*   "not_object"  the JSON document is not an object
\*   "events_null" the events list is null
\*   "ok"          an object holding the list `events` of raw records
\* A raw record is flat: for every nested JSON object one field says whether
\* the key is "missing", "null" or an "obj" ("empty"/"list" for arrays), and
\* its leaves are NoKey, None or a str.

\* str.title() on ASCII text
Title(s) ==
  [i \in 1..Len(s) |->
     IF i = 1 \/ ~(LowerChar(s[i - 1]) >= 97 /\ LowerChar(s[i - 1]) <= 122)
     THEN (IF s[i] >= 97 /\ s[i] <= 122 THEN s[i] - 32 ELSE s[i])
     ELSE LowerChar(s[i])]

\* x or "Seattle" style defaults: dict.get(key, d) or d
GetOr(v, d) == IF Truthy(v) THEN v ELSE d

\* dict.get(key, d): the default only when the key is absent
GetDefault(v, d) == IF v = NoKey THEN d ELSE v

\* type_mapping.get(category_id, event_type_name), where
\* type_mapping = {v: k.title() for k, v in EVENT_TYPE_TO_CATEGORY.items()}
type_mapping_get(category_id, event_type_name) ==
  IF \E i \in 1..Len(EVENT_TYPE_TO_CATEGORY) : EVENT_TYPE_TO_CATEGORY[i][2] = category_id
  THEN Title(EVENT_TYPE_TO_CATEGORY[CHOOSE i \in 1..Len(EVENT_TYPE_TO_CATEGORY) :
                                      EVENT_TYPE_TO_CATEGORY[i][2] = category_id][1])
  ELSE event_type_name

\* A for loop over raw records whose passes gave `recs`: the list of the
\* records appended, or the exception of the first pass that raised.
LoopResult(recs) ==
  CHOOSE r \in
    { IF \E i \in 1..Len(rs) : rs[i].exc # ""
      THEN Raised(rs[CHOOSE i \in 1..Len(rs) :
                        rs[i].exc # "" /\ \A j \in 1..(i - 1) : rs[j].exc = ""].exc)
      ELSE Returned([i \in 1..Len(rs) |-> rs[i].rec]) :
      rs \in {recs \o <<>>} } : TRUE

\* One pass of the Eventbrite loop body: the record appended, or the
\* exception raised by .get on a null object.
EventbriteRecord(event) ==
  IF \/ event.start = "null"
     \/ event.venue = "null"
     \/ (event.venue = "obj" /\ event.address = "null")
     \/ event.name = "null"
  THEN [exc |-> "AttributeError", rec |-> <<>>]
  ELSE LET start_time == IF event.start = "obj" THEN GetOrEmpty(event.start_local) ELSE <<>>
           area == IF event.venue = "obj" /\ event.address = "obj"
                   THEN GetOr(event.city, Seattle) ELSE Seattle
           event_type_name == IF event.category = "obj"
                              THEN GetDefault(event.category_name, EventStr)
                              ELSE EventStr
       IN  CHOOSE r \in
             { [exc |-> "",
                rec |-> [name |-> IF event.name = "obj"
                                  THEN GetDefault(event.name_text, UntitledEvent)
                                  ELSE UntitledEvent,
                         time |-> parsed.time,
                         date |-> parsed.date,
                         area |-> area,
                         type |-> type_mapping_get(GetOrEmpty(event.category_id),
                                                   event_type_name),
                         url |-> GetOr(event.url, <<>>),
                         source |-> NoKey]] :
               parsed \in {ParseStart(start_time)} } : TRUE

\* The try block of _get_eventbrite_events.
EventbriteTry(response) ==
  IF response.kind \in {"timeout", "conn_error"} THEN Raised("RequestException")
  ELSE IF response.kind \in {"http_404", "http_401"} THEN Returned(<<>>)
  ELSE IF response.kind = "http_500" THEN Raised("RequestException")
  ELSE IF response.kind = "not_json" THEN Raised("RequestException")
  ELSE IF response.kind = "not_object" THEN Raised("AttributeError")
  ELSE IF response.kind = "events_null" THEN Raised("TypeError")
  ELSE LoopResult([i \in 1..Len(response.events) |->
                     CHOOSE r \in {EventbriteRecord(event) : event \in {response.events[i]}} : TRUE])

\* A faulty variant of the except clauses: the exception is raised again.
CatchAll_Reraise(r) == r

\* The two except clauses of an adapter: every Exception becomes [].
CatchAll(r) == IF r.exc # "" THEN Returned(<<>>) ELSE r

\* _get_eventbrite_events
_get_eventbrite_events(has_key, response) ==
  IF ~has_key THEN Returned(<<>>) ELSE CatchAll(EventbriteTry(response))

\* One pass of the SeatGeek loop body.
SeatGeekRecord(event) ==
  IF event.venue = "null" THEN [exc |-> "AttributeError", rec |-> <<>>]
  ELSE IF event.taxonomies = "null" THEN [exc |-> "TypeError", rec |-> <<>>]
  ELSE IF event.taxonomies = "empty" THEN [exc |-> "IndexError", rec |-> <<>>]
  ELSE CHOOSE r \in
         { [exc |-> "",
            rec |-> [name |-> GetDefault(event.title, UntitledEvent),
                     time |-> parsed.time,
                     date |-> parsed.date,
                     area |-> IF event.venue = "obj" THEN GetOr(event.city, Seattle)
                              ELSE Seattle,
                     type |-> IF event.taxonomies = "list"
                              THEN GetOr(event.taxonomy_name, EventStr) ELSE EventStr,
                     url |-> GetOr(event.url, <<>>),
                     source |-> SeatGeek]] :
           parsed \in {ParseStart(GetOrEmpty(event.datetime_local))} } : TRUE

\* The try block of _get_seatgeek_events: data.get("events", [])[:limit]
SeatGeekTry(response, limit) ==
  IF response.kind \in {"timeout", "conn_error", "http_404", "http_401", "http_500",
                        "not_json"}
  THEN Raised("RequestException")
  ELSE IF response.kind = "not_object" THEN Raised("AttributeError")
  ELSE IF response.kind = "events_null" THEN Raised("TypeError")
  ELSE LoopResult([i \in 1..Len(Slice(response.events, 0, limit)) |->
                     CHOOSE r \in {SeatGeekRecord(event) : event \in {response.events[i]}} : TRUE])

\* _get_seatgeek_events
_get_seatgeek_events(has_id, has_secret, response, limit) ==
  IF ~has_id \/ ~has_secret THEN Returned(<<>>)
  ELSE CatchAll(SeatGeekTry(response, limit))

\* time_str and date_str of the Ticketmaster adapter for the start object
\* `dates`; name_is_none: the debug print event.get('name', 'Unknown')[:50]
\* inside the first try raises TypeError, which its except clause catches.
TicketmasterStart(dates, name_is_none) ==
  LET start_time == IF Truthy(dates.localDateTime) THEN dates.localDateTime
                    ELSE GetOrEmpty(dates.dateTime)
      local_date == IF Truthy(dates.localDate) THEN dates.localDate
                    ELSE GetOrEmpty(dates.date)
      tbd == dates.timeTBD \/ dates.timeTBA
      nothing == [time |-> None, date |-> None]
  IN  IF Truthy(start_time)
      THEN CHOOSE parsed \in
             { IF dt.ok /\ ~name_is_none
               THEN [time |-> FormatHour(dt.hour), date |-> FormatDate(dt)]
               ELSE IF Truthy(local_date) /\ strptime_date(local_date).ok
                    THEN [time |-> IF tbd THEN TBD ELSE None,
                          date |-> FormatDate(strptime_date(local_date))]
                    ELSE nothing :
               dt \in {fromisoformat(clean) : clean \in {ReplaceZ(start_time)}} } : TRUE
      ELSE IF Truthy(local_date)
      THEN IF strptime_date(local_date).ok
           THEN [time |-> IF tbd THEN TBD
                          ELSE IF Truthy(dates.localTime)
                                  /\ strptime_time(dates.localTime).ok
                               THEN FormatHour(strptime_time(dates.localTime).hour)
                               ELSE None,
                 date |-> FormatDate(strptime_date(local_date))]
           ELSE nothing
      ELSE nothing

\* event.get("dates", {}).get("start", {}) when it is a dict
NoDates ==
  [localDateTime |-> NoKey, dateTime |-> NoKey, localDate |-> NoKey, date |-> NoKey,
   localTime |-> NoKey, timeTBD |-> FALSE, timeTBA |-> FALSE]

\* One pass of the Ticketmaster loop body.
TicketmasterRecord(event) ==
  LET dates == IF event.dates = "obj" /\ event.start = "obj" THEN event.start_obj
               ELSE NoDates
      start_time == IF Truthy(dates.localDateTime) THEN dates.localDateTime
                    ELSE GetOrEmpty(dates.dateTime)
      local_date == IF Truthy(dates.localDate) THEN dates.localDate
                    ELSE GetOrEmpty(dates.date)
  IN  IF \/ event.dates = "null"
         \/ (event.dates = "obj" /\ event.start = "null")
         \/ event.embedded = "null"
         \/ (event.embedded = "obj" /\ event.venues = "list" /\ event.venue_city = "null")
         \/ (event.classifications = "list" /\ event.segment = "null")
      THEN [exc |-> "AttributeError", rec |-> <<>>]
      ELSE IF \/ (event.embedded = "obj" /\ event.venues = "empty")
              \/ event.classifications = "empty"
      THEN [exc |-> "IndexError", rec |-> <<>>]
      ELSE IF \/ (event.embedded = "obj" /\ event.venues = "null")
              \/ event.classifications = "null"
              \/ (event.name = None /\ ~Truthy(start_time) /\ Truthy(local_date))
      THEN [exc |-> "TypeError", rec |-> <<>>]
      ELSE CHOOSE r \in
             { IF event.name = None /\ (~Truthy(parsed.date) \/ ~Truthy(parsed.time))
               THEN [exc |-> "TypeError", rec |-> <<>>]
               ELSE [exc |-> "",
                     rec |-> [name |-> GetDefault(event.name, UntitledEvent),
                              time |-> parsed.time,
                              date |-> parsed.date,
                              area |-> IF event.embedded = "obj" /\ event.venues = "list"
                                          /\ event.venue_city = "obj"
                                       THEN GetOr(event.city_name, Seattle) ELSE Seattle,
                              type |-> IF event.classifications = "list"
                                          /\ event.segment = "obj"
                                       THEN GetOr(event.segment_name, EventStr)
                                       ELSE EventStr,
                              url |-> GetOr(event.url, <<>>),
                              source |-> Ticketmaster]] :
               parsed \in {TicketmasterStart(dates, event.name = None)} } : TRUE

\* The try block of _get_ticketmaster_events:
\* data.get("_embedded", {}).get("events", [])[:limit]
TicketmasterTry(response, limit) ==
  IF response.kind \in {"timeout", "conn_error", "http_404", "http_401", "http_500",
                        "not_json"}
  THEN Raised("RequestException")
  ELSE IF response.kind = "not_object" THEN Raised("AttributeError")
  ELSE IF response.kind = "events_null" THEN Raised("TypeError")
  ELSE LoopResult([i \in 1..Len(Slice(response.events, 0, limit)) |->
                     CHOOSE r \in {TicketmasterRecord(event) : event \in {response.events[i]}} : TRUE])

\* _get_ticketmaster_events
_get_ticketmaster_events(has_key, response, limit) ==
  IF ~has_key THEN Returned(<<>>) ELSE CatchAll(TicketmasterTry(response, limit))

\* ------------------------------------------------------------------------
\* The aggregation pipeline
\* ------------------------------------------------------------------------

\* What get_seattle_events gives its caller: the list (and which branch
\* returned it), or the exception that escaped, with the three adapter
\* results it worked from.
PipelineResult(exc, events, path, eb, tm, sg) ==
  [exc |-> exc, events |-> events, path |-> path,
   eventbrite |-> eb, ticketmaster |-> tm, seatgeek |-> sg]

\* A faulty variant of the tail of get_seattle_events: the live list is
\* returned without the final [:limit].
SelectEvents_NoTruncation(unique_events, event_type, limit) ==
  IF unique_events = <<>>
  THEN [path |-> "placeholder",
        events |-> Slice(IF Truthy(event_type)
                         THEN _filter_events_by_type(_get_placeholder_events(limit * 2),
                                                     event_type).events
                         ELSE _get_placeholder_events(limit * 2),
                         0, limit)]
  ELSE [path |-> "live", events |-> unique_events]

\* A faulty variant of the tail of get_seattle_events: a live list shorter
\* than limit is filled up with placeholder records.
SelectEvents_Padded(unique_events, event_type, limit) ==
  IF unique_events = <<>>
  THEN [path |-> "placeholder",
        events |-> Slice(IF Truthy(event_type)
                         THEN _filter_events_by_type(_get_placeholder_events(limit * 2),
                                                     event_type).events
                         ELSE _get_placeholder_events(limit * 2),
                         0, limit)]
  ELSE [path |-> "live",
        events |-> Slice(unique_events \o _get_placeholder_events(limit * 2), 0, limit)]

\* The tail of get_seattle_events, from the fallback test on.
SelectEvents(unique_events, event_type, limit) ==
  IF unique_events = <<>>
  THEN [path |-> "placeholder",
        events |-> Slice(IF Truthy(event_type)
                         THEN _filter_events_by_type(_get_placeholder_events(limit * 2),
                                                     event_type).events
                         ELSE _get_placeholder_events(limit * 2),
                         0, limit)]
  ELSE [path |-> "live", events |-> Slice(unique_events, 0, limit)]

\* A faulty variant of the aggregation: SeatGeek's records are put first.
Aggregate_SeatGeekFirst(eb, tm, sg, event_type, limit) ==
  CHOOSE r \in
    { IF filtered.exc # "" THEN PipelineResult(filtered.exc, <<>>, "", eb, tm, sg)
      ELSE CHOOSE p \in
             { PipelineResult("", sel.events, sel.path, eb, tm, sg) :
               sel \in {SelectEvents(filtered.events, event_type, limit)} } : TRUE :
      filtered \in
        { IF deduped.exc = "" /\ Truthy(event_type)
          THEN _filter_events_by_type(deduped.events, event_type)
          ELSE deduped :
          deduped \in {_deduplicate_events(all_events) :
                         all_events \in {sg.events \o tm.events \o eb.events}} } } : TRUE

\* get_seattle_events from the deduplication on, given the adapter results.
Aggregate(eb, tm, sg, event_type, limit) ==
  CHOOSE r \in
    { IF filtered.exc # "" THEN PipelineResult(filtered.exc, <<>>, "", eb, tm, sg)
      ELSE CHOOSE p \in
             { PipelineResult("", sel.events, sel.path, eb, tm, sg) :
               sel \in {SelectEvents(filtered.events, event_type, limit)} } : TRUE :
      filtered \in
        { IF deduped.exc = "" /\ Truthy(event_type)
          THEN _filter_events_by_type(deduped.events, event_type)
          ELSE deduped :
          deduped \in {_deduplicate_events(all_events) :
                         all_events \in {eb.events \o tm.events \o sg.events}} } } : TRUE

\* get_seattle_events(event_type, start_date, end_date, limit) under the
\* credentials `env` and the providers' answers `responses`; an exception
\* that escapes an adapter escapes the call.
get_seattle_events(env_, responses_, event_type, limit) ==
  CHOOSE r \in
    { IF eb.exc # "" THEN PipelineResult(eb.exc, <<>>, "", eb, tm, sg)
      ELSE IF tm.exc # "" THEN PipelineResult(tm.exc, <<>>, "", eb, tm, sg)
      ELSE IF sg.exc # "" THEN PipelineResult(sg.exc, <<>>, "", eb, tm, sg)
      ELSE Aggregate(eb, tm, sg, event_type, limit) :
      eb \in {_get_eventbrite_events(env_.eventbrite, responses_.eventbrite)},
      tm \in {IF env_.ticketmaster
               THEN _get_ticketmaster_events(env_.ticketmaster, responses_.ticketmaster, limit)
               ELSE Returned(<<>>)},
      sg \in {IF env_.seatgeek_id /\ env_.seatgeek_secret
               THEN _get_seatgeek_events(env_.seatgeek_id, env_.seatgeek_secret,
                                         responses_.seatgeek, limit)
               ELSE Returned(<<>>)} } : TRUE

\* ------------------------------------------------------------------------
\* Provider answers the model draws from
\* ------------------------------------------------------------------------

\* Most records of one answer, and the largest limit a caller asks for.
MaxEvents == 2
MaxLimit == 2

\* A well-formed Eventbrite record: "Jazz Night", 7 PM, Fremont, category 103.
EventbriteRaw1 ==
  [start |-> "obj", start_local |-> <<50, 48, 50, 52, 45, 48, 49, 45, 49, 53, 84, 49, 57, 58, 48, 48, 58, 48, 48>>,
   venue |-> "obj", address |-> "obj", city |-> <<70, 114, 101, 109, 111, 110, 116>>,
   category |-> "obj", category_name |-> <<77, 117, 115, 105, 99>>, category_id |-> <<49, 48, 51>>,
   name |-> "obj", name_text |-> <<74, 97, 122, 122, 32, 78, 105, 103, 104, 116>>, url |-> <<104, 116, 116, 112, 115, 58, 47, 47, 101, 98, 47, 49>>]

\* "Art Walk" at 10:00Z, no city, category named "Arts" without a known id.
EventbriteRaw2 ==
  [EventbriteRaw1 EXCEPT !.start_local = <<50, 48, 50, 52, 45, 48, 49, 45, 49, 53, 84, 49, 48, 58, 48, 48, 58, 48, 48, 90>>,
                         !.city = NoKey, !.category_name = <<65, 114, 116, 115>>,
                         !.category_id = NoKey, !.name_text = <<65, 114, 116, 32, 87, 97, 108, 107>>,
                         !.url = NoKey]

\* "Kraken Game" whose venue is null.
EventbriteRaw3 ==
  [EventbriteRaw1 EXCEPT !.venue = "null", !.name_text = <<75, 114, 97, 107, 101, 110, 32, 71, 97, 109, 101>>,
                         !.category_name = <<83, 112, 111, 114, 116, 115>>, !.category_id = <<49, 48, 56>>]

\* "Tech Talk" with no start time and no category.
EventbriteRaw4 ==
  [EventbriteRaw1 EXCEPT !.start = "missing", !.category = "missing",
                         !.category_id = NoKey, !.name_text = <<84, 101, 99, 104, 32, 84, 97, 108, 107>>]

EventbritePool == <<EventbriteRaw1, EventbriteRaw2, EventbriteRaw3, EventbriteRaw4>>

\* A well-formed Ticketmaster record: "JAZZ NIGHT " at 19:30 in Downtown,
\* the same dedup key as EventbriteRaw1.
TicketmasterRaw1 ==
  [dates |-> "obj", start |-> "obj",
   start_obj |-> [NoDates EXCEPT !.localDateTime = <<50, 48, 50, 52, 45, 48, 49, 45, 49, 54, 84, 49, 57, 58, 51, 48, 58, 48, 48>>,
                                 !.localDate = <<50, 48, 50, 52, 45, 48, 49, 45, 49, 54>>],
   embedded |-> "obj", venues |-> "list", venue_city |-> "obj",
   city_name |-> <<68, 111, 119, 110, 116, 111, 119, 110>>,
   classifications |-> "list", segment |-> "obj", segment_name |-> <<77, 117, 115, 105, 99>>,
   name |-> <<74, 65, 90, 90, 32, 78, 73, 71, 72, 84, 32>>, url |-> <<104, 116, 116, 112, 115, 58, 47, 47, 116, 109, 47, 49>>]

\* "Kraken Game" with a date only and the time marked TBD.
TicketmasterRaw2 ==
  [TicketmasterRaw1 EXCEPT !.start_obj = [NoDates EXCEPT !.localDate = <<50, 48, 50, 52, 45, 48, 49, 45, 49, 53>>,
                                                         !.timeTBD = TRUE],
                           !.city_name = None, !.segment_name = <<83, 112, 111, 114, 116, 115>>,
                           !.name = <<75, 114, 97, 107, 101, 110, 32, 71, 97, 109, 101>>]

\* "Opera Gala" whose classifications list is empty.
TicketmasterRaw3 ==
  [TicketmasterRaw1 EXCEPT !.classifications = "empty", !.name = <<79, 112, 101, 114, 97, 32, 71, 97, 108, 97>>]

TicketmasterPool == <<TicketmasterRaw1, TicketmasterRaw2, TicketmasterRaw3>>

\* A well-formed SeatGeek record: "Kraken Game" at 19:00.
SeatGeekRaw1 ==
  [datetime_local |-> <<50, 48, 50, 52, 45, 48, 49, 45, 49, 53, 84, 49, 57, 58, 48, 48, 58, 48, 48>>, venue |-> "obj", city |-> <<83, 101, 97, 116, 116, 108, 101>>,
   taxonomies |-> "list", taxonomy_name |-> <<115, 112, 111, 114, 116, 115>>, title |-> <<75, 114, 97, 107, 101, 110, 32, 71, 97, 109, 101>>,
   url |-> <<104, 116, 116, 112, 115, 58, 47, 47, 115, 103, 47, 49>>]

\* "Comedy Hour" whose start time is not ISO text.
SeatGeekRaw2 ==
  [SeatGeekRaw1 EXCEPT !.datetime_local = <<100, 111, 111, 114, 115, 32, 97, 116, 32, 56>>, !.city = <<66, 97, 108, 108, 97, 114, 100>>,
                       !.taxonomy_name = <<99, 111, 109, 101, 100, 121>>, !.title = <<67, 111, 109, 101, 100, 121, 32, 72, 111, 117, 114>>]

\* A record with a null title and no start time.
SeatGeekRaw3 ==
  [SeatGeekRaw1 EXCEPT !.datetime_local = None, !.title = None,
                       !.taxonomy_name = <<99, 111, 110, 99, 101, 114, 116>>]

SeatGeekPool == <<SeatGeekRaw1, SeatGeekRaw2, SeatGeekRaw3>>

\* The sublists of `pool` (order kept) of at most MaxEvents records.
SubLists(pool) ==
  { [i \in 1..Cardinality(S) |->
       pool[CHOOSE k \in S : Cardinality({j \in S : j < k}) = i - 1]] :
    S \in {T \in SUBSET (1..Len(pool)) : Cardinality(T) <= MaxEvents} }

FailureKinds ==
  {"timeout", "conn_error", "http_404", "http_401", "http_500", "not_json",
   "not_object", "events_null"}

\* Every answer of a provider: each failure, and each list of its records.
Answers(pool) ==
  { [kind |-> k, events |-> <<>>] : k \in FailureKinds }
  \cup { [kind |-> "ok", events |-> evs] : evs \in SubLists(pool) }

\* The answers the pipeline is run on: two failures, and each list.
PipelineAnswers(pool) ==
  { r \in Answers(pool) : r.kind \in {"ok", "timeout", "http_500"} }

NoAnswer == [kind |-> "ok", events |-> <<>>]

\* "music", "sports": the categories asked for; None asks for no filter.
QueryTypes == {None, <<109, 117, 115, 105, 99>>, <<115, 112, 111, 114, 116, 115>>}

\* ------------------------------------------------------------------------
\* Weather, air quality and the other collaborators of the request handlers
\* ------------------------------------------------------------------------

\* CACHE_DURATION = timedelta(minutes=10), in minutes.
CACHE_DURATION == 10

\* What an upstream does with one request: answers, times out, answers with
\* a non-2xx status, or answers 200 with a payload of the wrong shape.
UpstreamKinds == {"ok", "timeout", "http_500", "malformed"}

\* The exception requests.get / raise_for_status / the payload lookups raise.
ExceptionOf(kind) ==
  IF kind = "timeout" THEN "Timeout"
  ELSE IF kind = "http_500" THEN "HTTPError"
  ELSE "KeyError"

\* None, for a cached payload and for the cache timestamp.
NoValue == [kind |-> "none", fetched_at |-> -1]
NoTime == -1

\* A payload is represented by where it comes from and the instant it was
\* built at.
Payload(kind, t) == [kind |-> kind, fetched_at |-> t]

\* A faulty variant of get_seattle_weather(): without key it returns a made-up
\* payload instead of raising.
get_seattle_weather_Fabricated(has_key, answer, t) ==
  IF ~has_key THEN [exc |-> "", value |-> Payload("default", t)]
  ELSE IF answer # "ok" THEN [exc |-> ExceptionOf(answer), value |-> NoValue]
  ELSE [exc |-> "", value |-> Payload("live", t)]

\* get_seattle_weather(): no key raises, and nothing catches a failed request.
get_seattle_weather(has_key, answer, t) ==
  IF ~has_key THEN [exc |-> "RuntimeError", value |-> NoValue]
  ELSE IF answer # "ok" THEN [exc |-> ExceptionOf(answer), value |-> NoValue]
  ELSE [exc |-> "", value |-> Payload("live", t)]

\* _get_default_air_quality()
_get_default_air_quality(t) == Payload("default", t)

\* get_seattle_air_quality(): the default payload without key and on any
\* exception.
get_seattle_air_quality(has_key, answer, t) ==
  IF ~has_key THEN _get_default_air_quality(t)
  ELSE IF answer # "ok" THEN _get_default_air_quality(t)
  ELSE Payload("live", t)

\* get_weather_forecast_next_hours(): "unavailable" without key and on any
\* exception.
get_weather_forecast_next_hours(has_key, answer, t) ==
  IF ~has_key THEN Payload("default", t)
  ELSE IF answer # "ok" THEN Payload("default", t)
  ELSE Payload("live", t)

\* get_king_county_updates(): both page fetches swallow their exceptions, and
\* an empty list is replaced by the default advice.
get_king_county_updates(answer, t) ==
  IF answer # "ok" THEN Payload("default", t) ELSE Payload("live", t)

\* get_seattle_food_joints(): placeholders without key and on any exception.
get_seattle_food_joints(has_key, answer, t) ==
  IF ~has_key THEN Payload("placeholder", t)
  ELSE IF answer # "ok" THEN Payload("placeholder", t)
  ELSE Payload("live", t)

\* get_seattle_outdoor_activities(): a static list.
get_seattle_outdoor_activities(t) == Payload("static", t)

\* A faulty variant of _get_cached_weather(): the timestamp is written before
\* the fetch, so a fetch that raises leaves the new timestamp behind.
_get_cached_weather_StampsFirst(c, t, has_key, answer) ==
  IF c.weather = NoValue \/ c.timestamp = NoTime \/ (t - c.timestamp) > CACHE_DURATION
  THEN LET w == get_seattle_weather(has_key, answer, t)
       IN  IF w.exc # "" THEN [exc |-> w.exc, value |-> NoValue,
                               cache |-> [c EXCEPT !.timestamp = t]]
           ELSE [exc |-> "", value |-> w.value,
                 cache |-> [c EXCEPT !.weather = w.value, !.timestamp = t]]
  ELSE [exc |-> "", value |-> c.weather, cache |-> c]

\* _get_cached_weather() on the globals c at instant t.
_get_cached_weather(c, t, has_key, answer) ==
  IF c.weather = NoValue \/ c.timestamp = NoTime \/ (t - c.timestamp) > CACHE_DURATION
  THEN LET w == get_seattle_weather(has_key, answer, t)
       IN  IF w.exc # "" THEN [exc |-> w.exc, value |-> NoValue, cache |-> c]
           ELSE [exc |-> "", value |-> w.value,
                 cache |-> [c EXCEPT !.weather = w.value, !.timestamp = t]]
  ELSE [exc |-> "", value |-> c.weather, cache |-> c]

\* _get_cached_air_quality() on the globals c at instant t.
_get_cached_air_quality(c, t, has_key, answer) ==
  IF c.air_quality = NoValue \/ c.timestamp = NoTime \/ (t - c.timestamp) > CACHE_DURATION
  THEN LET a == get_seattle_air_quality(has_key, answer, t)
       IN  [value |-> a, cache |-> [c EXCEPT !.air_quality = a, !.timestamp = t]]
  ELSE [value |-> c.air_quality, cache |-> c]

\* What a handler gives the framework: a body, or the exception that escaped.
Failure(exc, c) ==
  [status |-> "error", exc |-> exc, weather |-> NoValue, air_quality |-> NoValue,
   part |-> NoValue, events |-> <<>>, locations |-> <<>>, cache |-> c]
Body(weather, air_quality, part, events, locations, c) ==
  [status |-> "ok", exc |-> "", weather |-> weather, air_quality |-> air_quality,
   part |-> part, events |-> events, locations |-> locations, cache |-> c]

\* The two cache reads every handler starts with.
CachedPair(c, t, has_key, up) ==
  LET w == _get_cached_weather(c, t, has_key, up.weather)
  IN  IF w.exc # "" THEN [exc |-> w.exc, weather |-> NoValue, air_quality |-> NoValue,
                          cache |-> w.cache]
      ELSE LET a == _get_cached_air_quality(w.cache, t, has_key, up.air_quality)
           IN  [exc |-> "", weather |-> w.value, air_quality |-> a.value, cache |-> a.cache]

\* GET /api/overview
get_overview(c, t, env_, up) ==
  LET p == CachedPair(c, t, env_.openweather, up)
  IN  IF p.exc # "" THEN Failure(p.exc, p.cache)
      ELSE Body(p.weather, p.air_quality,
                [forecast |-> get_weather_forecast_next_hours(env_.openweather, up.forecast, t),
                 traffic |-> get_king_county_updates(up.county, t)],
                <<>>, <<>>, p.cache)

\* GET /api/food
get_food(c, t, env_, up) ==
  LET p == CachedPair(c, t, env_.openweather, up)
  IN  IF p.exc # "" THEN Failure(p.exc, p.cache)
      ELSE Body(p.weather, p.air_quality,
                get_seattle_food_joints(env_.google_places, up.places, t),
                <<>>, <<>>, p.cache)

\* GET /api/outdoor
get_outdoor_activities(c, t, env_, up) ==
  LET p == CachedPair(c, t, env_.openweather, up)
  IN  IF p.exc # "" THEN Failure(p.exc, p.cache)
      ELSE Body(p.weather, p.air_quality, get_seattle_outdoor_activities(t),
                <<>>, <<>>, p.cache)

\* s.split(","): the pieces between consecutive commas.
Split(s) ==
  LET cuts == {0, Len(s) + 1} \cup {i \in 1..Len(s) : s[i] = 44}
      nth(r) == CHOOSE i \in cuts : Cardinality({j \in cuts : j < i}) = r
  IN  [r \in 1..(Cardinality(cuts) - 1) |->
         IF nth(r - 1) + 1 > nth(r) - 1 THEN <<>>
         ELSE SubSeq(s, nth(r - 1) + 1, nth(r) - 1)]

\* [loc.strip() for loc in locations.split(",") if loc.strip()], or None
location_list(locations) ==
  IF ~Truthy(locations) THEN None
  ELSE LET stripped == [i \in 1..Len(Split(locations)) |-> Strip(Split(locations)[i])]
       IN  AtIndices(stripped, {i \in 1..Len(stripped) : stripped[i] # <<>>})

\* sorted(list(set(S))) for a set of str
SortedSet(S) ==
  [r \in 1..Cardinality(S) |->
     CHOOSE s \in S : Cardinality({x \in S : StrLess(x, s)}) = r - 1]

\* sorted(list(set([event.get("area", "Seattle") for event in events
\*                  if event.get("area")])))
unique_locations(events) ==
  SortedSet({events[i].area : i \in {k \in 1..Len(events) : Truthy(events[k].area)}})

\* The parameters get_seattle_events declares, and the keywords get_events
\* passes in both of its calls.
get_seattle_events_parameters == {"event_type", "start_date", "end_date", "limit"}
get_events_keywords == {"event_type", "start_date", "end_date", "locations", "limit"}

\* Binding keyword arguments: a keyword that is no parameter is a TypeError.
BindKeywords(keywords, parameters) ==
  IF keywords \subseteq parameters THEN "" ELSE "TypeError"

\* GET /api/events
get_events(c, t, env_, up, responses_, event_type, locations, event_limit) ==
  LET p == CachedPair(c, t, env_.openweather, up)
  IN  IF p.exc # "" THEN Failure(p.exc, p.cache)
      ELSE IF BindKeywords(get_events_keywords, get_seattle_events_parameters) # ""
      THEN Failure(BindKeywords(get_events_keywords, get_seattle_events_parameters), p.cache)
      ELSE CHOOSE r \in
             { IF all_events_for_locations.exc # ""
               THEN Failure(all_events_for_locations.exc, p.cache)
               ELSE IF events.exc # "" THEN Failure(events.exc, p.cache)
               ELSE Body(p.weather, p.air_quality, NoValue, events.events,
                         unique_locations(all_events_for_locations.events), p.cache) :
               all_events_for_locations \in
                  {get_seattle_events(env_, responses_, event_type, event_limit * 3)},
               events \in {get_seattle_events(env_, responses_, event_type, event_limit)} } : TRUE

\* ------------------------------------------------------------------------
\* State
\* ------------------------------------------------------------------------

VARIABLES
  env,                \* which credentials the environment sets (module constants)
  responses,          \* what each event provider answers during the request
  query,              \* the arguments of the last get_seattle_events call
  result,             \* what that call gave its caller
  call,               \* a single adapter call: provider, answer, limit
  adapter_result,     \* what that adapter call gave its caller
  _weather_cache,     \* daily_pulse._weather_cache
  _air_quality_cache, \* daily_pulse._air_quality_cache
  _cache_timestamp,   \* daily_pulse._cache_timestamp, shared by both caches
  now,                \* datetime.now(), in minutes
  request,            \* the last HTTP request, with what the upstreams answered
  response,           \* what its handler gave the framework
  args,               \* the arguments of a function that is run on its own
  returned,           \* what the function returned, step by step
  threads,            \* the worker threads running handlers: position and locals
  upstream_log        \* the get_seattle_weather() calls made so far

vars == <<env, responses, query, result, call, adapter_result,
          _weather_cache, _air_quality_cache, _cache_timestamp, now, request, response,
          args, returned, threads, upstream_log>>

\* The variables of handlers that run side by side in the thread pool.
thread_vars == <<threads, upstream_log>>

\* The variables of a function run on its own.
pure_vars == <<args, returned>>

\* The variables of the request handlers.
api_vars == <<_weather_cache, _air_quality_cache, _cache_timestamp, now, request, response>>

NoQuery == [event_type |-> None, limit |-> 0]
NoResult == PipelineResult("", <<>>, "none", Returned(<<>>), Returned(<<>>), Returned(<<>>))
NoCall == [provider |-> "none", response |-> NoAnswer, limit |-> 0]
NotCalled == [exc |-> "", events |-> <<>>, called |-> FALSE]
AllOk == [weather |-> "ok", air_quality |-> "ok", forecast |-> "ok", county |-> "ok",
          places |-> "ok"]
NoRequest == [endpoint |-> "none", upstream |-> AllOk, before |-> [weather |-> NoValue,
              air_quality |-> NoValue, timestamp |-> NoTime], at |-> 0,
              event_type |-> None, locations |-> None, event_limit |-> 0]
NoResponse == [status |-> "none", exc |-> "", weather |-> NoValue, air_quality |-> NoValue,
               part |-> NoValue, events |-> <<>>, locations |-> <<>>]

\* No function is run on its own.
NoArgs == [function |-> "none"]
NotReturned == [stage |-> 0]
PureIdle == args = NoArgs /\ returned = NotReturned

\* No handler runs in a worker thread.
ThreadsIdle == threads = <<>> /\ upstream_log = <<>>

\* No request is served: the handlers' globals are as at import.
ApiIdle ==
  /\ _weather_cache = NoValue
  /\ _air_quality_cache = NoValue
  /\ _cache_timestamp = NoTime
  /\ now = 0
  /\ request = NoRequest
  /\ response = NoResponse

\* Every setting of the event providers' credentials.
EventEnvs ==
  [openweather : {TRUE}, google_places : {TRUE}, eventbrite : BOOLEAN,
   ticketmaster : BOOLEAN, seatgeek_id : BOOLEAN, seatgeek_secret : BOOLEAN]

\* ------------------------------------------------------------------------
\* The pipeline on its own: one get_seattle_events call per behaviour
\* ------------------------------------------------------------------------

\* A provider that is not called (no credential) has no answer to vary.
InitEvents ==
  /\ env \in EventEnvs
  /\ responses \in [eventbrite : PipelineAnswers(EventbritePool),
                    ticketmaster : PipelineAnswers(TicketmasterPool),
                    seatgeek : PipelineAnswers(SeatGeekPool)]
  /\ ~env.eventbrite => responses.eventbrite = NoAnswer
  /\ ~env.ticketmaster => responses.ticketmaster = NoAnswer
  /\ ~(env.seatgeek_id /\ env.seatgeek_secret) => responses.seatgeek = NoAnswer
  /\ query = NoQuery
  /\ result = NoResult
  /\ call = NoCall
  /\ adapter_result = NotCalled
  /\ ApiIdle
  /\ PureIdle
  /\ ThreadsIdle

GetSeattleEvents(event_type, limit) ==
  /\ result.path = "none" /\ result.exc = ""
  /\ query' = [event_type |-> event_type, limit |-> limit]
  /\ result' = get_seattle_events(env, responses, event_type, limit)
  /\ UNCHANGED <<env, responses, call, adapter_result, api_vars, pure_vars, thread_vars>>

NextEvents ==
  \E event_type \in QueryTypes, limit \in 1..MaxLimit :
     GetSeattleEvents(event_type, limit)

SpecEvents == InitEvents /\ [][NextEvents]_vars

\* ------------------------------------------------------------------------
\* One adapter on its own: one call per behaviour
\* ------------------------------------------------------------------------

InitAdapter ==
  /\ env \in EventEnvs
  /\ call \in ({[provider |-> "eventbrite", response |-> r, limit |-> l] :
                  r \in Answers(EventbritePool), l \in 1..MaxLimit}
               \cup {[provider |-> "ticketmaster", response |-> r, limit |-> l] :
                  r \in Answers(TicketmasterPool), l \in 1..MaxLimit}
               \cup {[provider |-> "seatgeek", response |-> r, limit |-> l] :
                  r \in Answers(SeatGeekPool), l \in 1..MaxLimit})
  /\ adapter_result = NotCalled
  /\ responses = [eventbrite |-> NoAnswer, ticketmaster |-> NoAnswer, seatgeek |-> NoAnswer]
  /\ query = NoQuery
  /\ result = NoResult
  /\ ApiIdle
  /\ PureIdle
  /\ ThreadsIdle

\* The adapter named by `call`, under the credentials of env.
AdapterOf(c) ==
  IF c.provider = "eventbrite" THEN _get_eventbrite_events(env.eventbrite, c.response)
  ELSE IF c.provider = "ticketmaster"
  THEN _get_ticketmaster_events(env.ticketmaster, c.response, c.limit)
  ELSE _get_seatgeek_events(env.seatgeek_id, env.seatgeek_secret, c.response, c.limit)

CallAdapter ==
  /\ ~adapter_result.called
  /\ adapter_result' = [exc |-> AdapterOf(call).exc, events |-> AdapterOf(call).events,
                        called |-> TRUE]
  /\ UNCHANGED <<env, responses, query, result, call, api_vars, pure_vars, thread_vars>>

NextAdapter == CallAdapter

SpecAdapter == InitAdapter /\ [][NextAdapter]_vars

\* ------------------------------------------------------------------------
\* The request handlers: any sequence of requests, with time passing
\* ------------------------------------------------------------------------

\* Minutes the clock is followed for.
MaxTime == 11

\* The minutes that pass between two requests: half a cache window, and a
\* minute more, so that ages of 10 and of 11 minutes both occur.
TickSteps == {5, 6}

\* The weather key set or not, and the other credentials all set or all unset.
ApiEnvs ==
  { [openweather |-> w, google_places |-> o, eventbrite |-> o, ticketmaster |-> o,
     seatgeek_id |-> o, seatgeek_secret |-> o] : w \in BOOLEAN, o \in BOOLEAN }

\* What the upstreams answer during one request. The services of air quality,
\* forecast, county page and places turn every failure into the same default,
\* so one failure stands for each of them.
Upstreams ==
  [weather : UpstreamKinds, air_quality : {"ok", "timeout"}, forecast : {"ok", "timeout"},
   county : {"ok", "timeout"}, places : {"ok", "timeout"}]

\* "Fremont"
Fremont == <<70, 114, 101, 109, 111, 110, 116>>

LocationQueries == {None, Fremont}

Globals == [weather |-> _weather_cache, air_quality |-> _air_quality_cache,
            timestamp |-> _cache_timestamp]

InitApi ==
  /\ env \in ApiEnvs
  /\ responses = [eventbrite |-> [kind |-> "ok", events |-> <<EventbriteRaw1, EventbriteRaw2>>],
                  ticketmaster |-> NoAnswer, seatgeek |-> NoAnswer]
  /\ query = NoQuery
  /\ result = NoResult
  /\ call = NoCall
  /\ adapter_result = NotCalled
  /\ ApiIdle
  /\ PureIdle
  /\ ThreadsIdle

\* The handler of a request, run on the globals c at instant t.
Handle(req, c, t, env_, responses_) ==
  IF req.endpoint = "overview" THEN get_overview(c, t, env_, req.upstream)
  ELSE IF req.endpoint = "food" THEN get_food(c, t, env_, req.upstream)
  ELSE IF req.endpoint = "outdoor" THEN get_outdoor_activities(c, t, env_, req.upstream)
  ELSE get_events(c, t, env_, req.upstream, responses_, req.event_type, req.locations,
                  req.event_limit)

\* One request served from start to end.
Serve(req) ==
  /\ request' = req
  /\ \E r \in {Handle(req, Globals, now, env, responses)} :
        /\ response' = [status |-> r.status, exc |-> r.exc, weather |-> r.weather,
                        air_quality |-> r.air_quality, part |-> r.part,
                        events |-> r.events, locations |-> r.locations]
        /\ _weather_cache' = r.cache.weather
        /\ _air_quality_cache' = r.cache.air_quality
        /\ _cache_timestamp' = r.cache.timestamp
  /\ UNCHANGED <<env, responses, query, result, call, adapter_result, now, pure_vars, thread_vars>>

Request(endpoint, up) ==
  [endpoint |-> endpoint, upstream |-> up, before |-> Globals, at |-> now,
   event_type |-> None, locations |-> None, event_limit |-> 0]

GetOverview ==
  \E up \in Upstreams : up.places = "ok" /\ Serve(Request("overview", up))

GetFood ==
  \E up \in Upstreams :
     up.forecast = "ok" /\ up.county = "ok" /\ Serve(Request("food", up))

GetOutdoor ==
  \E up \in Upstreams :
     up.forecast = "ok" /\ up.county = "ok" /\ up.places = "ok"
     /\ Serve(Request("outdoor", up))

GetEvents ==
  \E up \in Upstreams, locations \in LocationQueries, event_limit \in 1..MaxLimit :
     /\ up.forecast = "ok" /\ up.county = "ok" /\ up.places = "ok"
     /\ Serve([Request("events", up) EXCEPT !.locations = locations,
                                            !.event_limit = event_limit])

\* Time passes between two requests.
Tick(minutes) ==
  /\ now + minutes <= MaxTime
  /\ now' = now + minutes
  /\ UNCHANGED <<env, responses, query, result, call, adapter_result,
                 _weather_cache, _air_quality_cache, _cache_timestamp, request, response,
                 pure_vars, thread_vars>>

NextApi ==
  \/ GetOverview
  \/ GetFood
  \/ GetEvents
  \/ GetOutdoor
  \/ \E minutes \in TickSteps : Tick(minutes)

SpecApi == InitApi /\ [][NextApi]_vars

\* ------------------------------------------------------------------------
\* Functions run on their own
\* ------------------------------------------------------------------------

\* Nothing but args and returned is in use.
RestIdle ==
  /\ env \in {[openweather |-> TRUE, google_places |-> TRUE, eventbrite |-> TRUE,
                ticketmaster |-> TRUE, seatgeek_id |-> TRUE, seatgeek_secret |-> TRUE]}
  /\ responses = [eventbrite |-> NoAnswer, ticketmaster |-> NoAnswer, seatgeek |-> NoAnswer]
  /\ query = NoQuery
  /\ result = NoResult
  /\ call = NoCall
  /\ adapter_result = NotCalled
  /\ ApiIdle
  /\ ThreadsIdle

rest_vars == <<env, responses, query, result, call, adapter_result, api_vars, thread_vars>>

\* Most records of a list handed to _deduplicate_events on its own.
MaxRecords == 3

\* Normalized records as the adapters build them: "Jazz Night" 7 PM,
\* "Art Walk" 10 AM, "Tech Talk" without time, "JAZZ NIGHT " 7 PM,
\* "Kraken Game" TBD, "Kraken Game" 7 PM, "Comedy Hour", and a null name.
NormalizedPool ==
  <<EventbriteRecord(EventbriteRaw1).rec, EventbriteRecord(EventbriteRaw2).rec,
    EventbriteRecord(EventbriteRaw4).rec, TicketmasterRecord(TicketmasterRaw1).rec,
    TicketmasterRecord(TicketmasterRaw2).rec, SeatGeekRecord(SeatGeekRaw1).rec,
    SeatGeekRecord(SeatGeekRaw2).rec, SeatGeekRecord(SeatGeekRaw3).rec>>

\* The lists of at most n records of the pool, in any order, with repeats.
ListsUpTo(pool, n) ==
  UNION { [1..k -> {pool[i] : i \in 1..Len(pool)}] : k \in 0..n }

InitDedup ==
  /\ args \in {[function |-> "_deduplicate_events", events |-> evs] :
                 evs \in ListsUpTo(NormalizedPool, MaxRecords)}
  /\ returned = NotReturned
  /\ RestIdle

\* unique = _deduplicate_events(events)
Dedup ==
  /\ returned.stage = 0
  /\ returned' = [stage |-> 1, once |-> _deduplicate_events(args.events)]
  /\ UNCHANGED <<args, rest_vars>>

\* _deduplicate_events(unique), and _deduplicate_events(events) once more
DedupAgain ==
  /\ returned.stage = 1 /\ returned.once.exc = ""
  /\ returned' = [stage |-> 2, once |-> returned.once,
                  twice |-> _deduplicate_events(returned.once.events),
                  rerun |-> _deduplicate_events(args.events)]
  /\ UNCHANGED <<args, rest_vars>>

NextDedup == Dedup \/ DedupAgain

SpecDedup == InitDedup /\ [][NextDedup]_vars

\* ------------------------------------------------------------------------
\* The EPA index of a pollutant concentration
\* ------------------------------------------------------------------------

\* EPA_AQI_BREAKPOINTS: (low_conc, high_conc, low_aqi, high_aqi) per bracket.
\* The concentrations of pm2_5 and co are written in tenths of their unit
\* (12.1 is 121), those of pm10, o3 and no2 in units.
EPA_AQI_BREAKPOINTS ==
  [pm2_5 |-> << <<0, 120, 0, 50>>, <<121, 354, 51, 100>>, <<355, 554, 101, 150>>,
                <<555, 1504, 151, 200>>, <<1505, 2504, 201, 300>>, <<2505, 5004, 301, 500>> >>,
   pm10  |-> << <<0, 54, 0, 50>>, <<55, 154, 51, 100>>, <<155, 254, 101, 150>>,
                <<255, 354, 151, 200>>, <<355, 424, 201, 300>>, <<425, 604, 301, 500>> >>,
   o3    |-> << <<0, 54, 0, 50>>, <<55, 70, 51, 100>>, <<71, 85, 101, 150>>,
                <<86, 105, 151, 200>>, <<106, 200, 201, 300>>, <<201, 500, 301, 500>> >>,
   no2   |-> << <<0, 53, 0, 50>>, <<54, 100, 51, 100>>, <<101, 360, 101, 150>>,
                <<361, 649, 151, 200>>, <<650, 1249, 201, 300>>, <<1250, 2049, 301, 500>> >>,
   co    |-> << <<0, 44, 0, 50>>, <<45, 94, 51, 100>>, <<95, 124, 101, 150>>,
                <<125, 154, 151, 200>>, <<155, 304, 201, 300>>, <<305, 504, 301, 500>> >>]

\* The keys of EPA_AQI_BREAKPOINTS.
Pollutants == {"pm2_5", "pm10", "o3", "no2", "co"}

\* A concentration is the fraction num/den of the table's written unit;
\* `exact` tells a value passed as written from one that a float division
\* produced and that may be one ulp off.
Conc(num, den, exact) == [num |-> num, den |-> den, exact |-> exact]

\* low_conc <= concentration <= high_conc
Covers(b, concentration) ==
  b[1] * concentration.den <= concentration.num /\ concentration.num <= b[2] * concentration.den

\* round(n/d) for n >= 0, d > 0. Where n/d lies exactly between two integers
\* the float the code rounds can be on either side of it: both are outcomes.
RoundOutcomes(n, d) ==
  IF 2 * (n % d) < d THEN {n \div d}
  ELSE IF 2 * (n % d) > d THEN {(n \div d) + 1}
  ELSE {n \div d, (n \div d) + 1}

\* A concentration one ulp off a bracket end lies outside the bracket.
OffTheEnd(b, concentration) ==
  IF ~concentration.exact
     /\ (concentration.num = b[2] * concentration.den
         \/ (concentration.num = b[1] * concentration.den /\ concentration.num > 0))
  THEN {500} ELSE {}

\* A faulty variant of _calculate_epa_aqi: it interpolates downwards from
\* high_aqi.
_calculate_epa_aqi_Descending(concentration, breakpoints) ==
  IF \E i \in 1..Len(breakpoints) : Covers(breakpoints[i], concentration)
  THEN LET b == breakpoints[CHOOSE i \in 1..Len(breakpoints) :
                              /\ Covers(breakpoints[i], concentration)
                              /\ \A j \in 1..(i - 1) : ~Covers(breakpoints[j], concentration)]
       IN  { b[4] - q :
             q \in RoundOutcomes((b[4] - b[3]) * (concentration.num - b[1] * concentration.den),
                                 (b[2] - b[1]) * concentration.den) }
  ELSE {500}

\* A faulty variant of _calculate_epa_aqi: low_aqi is not added.
_calculate_epa_aqi_NoOffset(concentration, breakpoints) ==
  IF \E i \in 1..Len(breakpoints) : Covers(breakpoints[i], concentration)
  THEN LET b == breakpoints[CHOOSE i \in 1..Len(breakpoints) :
                              /\ Covers(breakpoints[i], concentration)
                              /\ \A j \in 1..(i - 1) : ~Covers(breakpoints[j], concentration)]
       IN  RoundOutcomes((b[4] - b[3]) * (concentration.num - b[1] * concentration.den),
                         (b[2] - b[1]) * concentration.den)
  ELSE {500}

\* _calculate_epa_aqi: the values the call can return. The first bracket
\* that covers the concentration is interpolated and rounded; 500 when none
\* covers it.
_calculate_epa_aqi(concentration, breakpoints) ==
  IF \E i \in 1..Len(breakpoints) : Covers(breakpoints[i], concentration)
  THEN LET b == breakpoints[CHOOSE i \in 1..Len(breakpoints) :
                              /\ Covers(breakpoints[i], concentration)
                              /\ \A j \in 1..(i - 1) : ~Covers(breakpoints[j], concentration)]
       IN  (IF b[2] = b[1] THEN {b[3]}
            ELSE { b[3] + q :
                   q \in RoundOutcomes((b[4] - b[3]) * (concentration.num - b[1] * concentration.den),
                                       (b[2] - b[1]) * concentration.den) })
           \cup OffTheEnd(b, concentration)
  ELSE {500}

\* components.get(...), in hundredths of a microgram per cubic metre, turned
\* into the fraction of the table's unit the index is computed from:
\* pm2_5 and pm10 as they are, no2 / 1.88, o3 / 1.96, co / 1150 (each 0 when
\* the component is not positive).
Converted(components) ==
  [pm2_5 |-> Conc(components.pm2_5, 10, TRUE),
   pm10  |-> Conc(components.pm10, 100, TRUE),
   o3    |-> IF components.o3 > 0 THEN Conc(components.o3, 196, FALSE) ELSE Conc(0, 1, TRUE),
   no2   |-> IF components.no2 > 0 THEN Conc(components.no2, 188, FALSE) ELSE Conc(0, 1, TRUE),
   co    |-> IF components.co > 0 THEN Conc(components.co, 11500, FALSE) ELSE Conc(0, 1, TRUE)]

\* max(aqi_pm25, aqi_pm10, aqi_o3, aqi_no2, aqi_co)
MaxAqi(a) ==
  CHOOSE m \in {a[p] : p \in Pollutants} : \A p \in Pollutants : a[p] <= m

\* EPA_AQI_CATEGORIES, in the order of the dict: (low, high) and the category.
EPA_AQI_CATEGORIES ==
  << <<0, 50, [label |-> "Good", color |-> "green",
               health_concern |-> "Air quality is satisfactory"]>>,
     <<51, 100, [label |-> "Moderate", color |-> "yellow",
                 health_concern |-> "Acceptable for most people"]>>,
     <<101, 150, [label |-> "Unhealthy for Sensitive Groups", color |-> "orange",
                  health_concern |-> "Sensitive groups may experience effects"]>>,
     <<151, 200, [label |-> "Unhealthy", color |-> "red",
                  health_concern |-> "Everyone may begin to experience effects"]>>,
     <<201, 300, [label |-> "Very Unhealthy", color |-> "purple",
                  health_concern |-> "Health alert: everyone may experience serious effects"]>>,
     <<301, 500, [label |-> "Hazardous", color |-> "maroon",
                  health_concern |-> "Health warning of emergency conditions"]>> >>

\* _get_epa_aqi_category: the first bucket with low <= aqi <= high, and the
\* last bucket for an index in none.
_get_epa_aqi_category(aqi) ==
  IF \E i \in 1..Len(EPA_AQI_CATEGORIES) :
        EPA_AQI_CATEGORIES[i][1] <= aqi /\ aqi <= EPA_AQI_CATEGORIES[i][2]
  THEN EPA_AQI_CATEGORIES[CHOOSE i \in 1..Len(EPA_AQI_CATEGORIES) :
                            /\ EPA_AQI_CATEGORIES[i][1] <= aqi /\ aqi <= EPA_AQI_CATEGORIES[i][2]
                            /\ \A j \in 1..(i - 1) :
                                  ~(EPA_AQI_CATEGORIES[j][1] <= aqi /\ aqi <= EPA_AQI_CATEGORIES[j][2])][3]
  ELSE EPA_AQI_CATEGORIES[Len(EPA_AQI_CATEGORIES)][3]

\* A faulty variant of the if/elif chain: the pollutants are tested in the
\* reverse order, so the last of several equal indices is named.
DominantPollutant_LastWins(a, epa_aqi) ==
  IF epa_aqi = a.co THEN "CO"
  ELSE IF epa_aqi = a.no2 THEN "NO2"
  ELSE IF epa_aqi = a.o3 THEN "O3"
  ELSE IF epa_aqi = a.pm10 THEN "PM10"
  ELSE IF epa_aqi = a.pm2_5 THEN "PM2.5"
  ELSE "None"

\* The if/elif chain that names the pollutant whose index is the overall one.
DominantPollutant(a, epa_aqi) ==
  IF epa_aqi = a.pm2_5 THEN "PM2.5"
  ELSE IF epa_aqi = a.pm10 THEN "PM10"
  ELSE IF epa_aqi = a.o3 THEN "O3"
  ELSE IF epa_aqi = a.no2 THEN "NO2"
  ELSE IF epa_aqi = a.co THEN "CO"
  ELSE "None"

\* The index part of get_seattle_air_quality: the five indices, their
\* maximum, the dominant pollutant and the category fields of the payload,
\* for each value the five calls can return.
AirQualityIndex(components) ==
  { [aqi |-> a, epa_aqi |-> MaxAqi(a), dominant_pollutant |-> DominantPollutant(a, MaxAqi(a)),
     aqi_label |-> _get_epa_aqi_category(MaxAqi(a)).label,
     aqi_color |-> _get_epa_aqi_category(MaxAqi(a)).color,
     health_concern |-> _get_epa_aqi_category(MaxAqi(a)).health_concern] :
    a \in { [pm2_5 |-> aqi_pm25, pm10 |-> aqi_pm10, o3 |-> aqi_o3, no2 |-> aqi_no2, co |-> aqi_co] :
             aqi_pm25 \in _calculate_epa_aqi(Converted(components).pm2_5, EPA_AQI_BREAKPOINTS.pm2_5),
             aqi_pm10 \in _calculate_epa_aqi(Converted(components).pm10, EPA_AQI_BREAKPOINTS.pm10),
             aqi_o3 \in _calculate_epa_aqi(Converted(components).o3, EPA_AQI_BREAKPOINTS.o3),
             aqi_no2 \in _calculate_epa_aqi(Converted(components).no2, EPA_AQI_BREAKPOINTS.no2),
             aqi_co \in _calculate_epa_aqi(Converted(components).co, EPA_AQI_BREAKPOINTS.co) } }

\* Half-units followed above the top of a table.
MaxAbove == 2

\* high_conc of the last bracket.
TopOf(breakpoints) == breakpoints[Len(breakpoints)][2]

\* The component readings the index is computed for: the scenario of 40
\* micrograms of PM2.5 alone, and readings of the other pollutants (pm10 at
\* 50 and no2 at 92.12 micrograms both have the index 46).
ComponentReadings ==
  [pm2_5 : {0, 1200, 4000, 15000}, pm10 : {0, 5000, 20000}, o3 : {0, 10000},
   no2 : {0, 9212, 9964}, co : {0, 500000}]

InitAqi ==
  /\ args \in {[function |-> "_calculate_epa_aqi", pollutant |-> p,
                concentration |-> Conc(k, 2, TRUE)] :
                 p \in Pollutants, k \in 0..(2 * 5004 + MaxAbove)}
              \cup {[function |-> "get_seattle_air_quality", components |-> c] :
                      c \in ComponentReadings}
  /\ args.function = "_calculate_epa_aqi" =>
        args.concentration.num <= 2 * TopOf(EPA_AQI_BREAKPOINTS[args.pollutant]) + MaxAbove
  /\ returned = NotReturned
  /\ RestIdle

\* The concentration `halves` half-units above c.
Above(c, halves) == Conc(c.num + halves, c.den, c.exact)

\* _calculate_epa_aqi at a concentration, and half a unit and one unit above.
CalculateEpaAqi ==
  /\ returned.stage = 0 /\ args.function = "_calculate_epa_aqi"
  /\ \E aqi \in _calculate_epa_aqi(args.concentration, EPA_AQI_BREAKPOINTS[args.pollutant]),
        half \in _calculate_epa_aqi(Above(args.concentration, 1), EPA_AQI_BREAKPOINTS[args.pollutant]),
        next \in _calculate_epa_aqi(Above(args.concentration, 2), EPA_AQI_BREAKPOINTS[args.pollutant]) :
        returned' = [stage |-> 1, aqi |-> aqi, half |-> half, next |-> next]
  /\ UNCHANGED <<args, rest_vars>>

\* The index part of get_seattle_air_quality on one reading.
ComputeAirQuality ==
  /\ returned.stage = 0 /\ args.function = "get_seattle_air_quality"
  /\ \E r \in AirQualityIndex(args.components) :
        returned' = [stage |-> 1, air_quality |-> r]
  /\ UNCHANGED <<args, rest_vars>>

NextAqi == CalculateEpaAqi \/ ComputeAirQuality

SpecAqi == InitAqi /\ [][NextAqi]_vars


\* ------------------------------------------------------------------------
\* The adapters' loop bodies run on one start time
\* ------------------------------------------------------------------------

\* "HH" and "MM" of a clock, zero-padded.
Pad2(n) == <<48 + (n \div 10), 48 + (n % 10)>>

\* What follows the seconds: nothing, "Z", or an offset "-08:00".
StartSuffixes == {<<>>, <<90>>, <<45, 48, 56, 58, 48, 48>>}

\* "2024-01-15THH:MM:00" followed by the suffix.
IsoStart(hour, minute, suffix) ==
  <<50, 48, 50, 52, 45, 48, 49, 45, 49, 53, 84>> \o Pad2(hour) \o <<58>> \o Pad2(minute)
  \o <<58, 48, 48>> \o suffix

\* The four places that format an hour: the three loop bodies on the start
\* time, and the Ticketmaster body on localTime when only localDate is given.
FormatPlaces == {"eventbrite", "ticketmaster", "ticketmaster_localTime", "seatgeek"}

\* The record the loop body of `place` builds for a start at hour:minute.
RecordAt(place, hour, minute, suffix) ==
  IF place = "eventbrite"
  THEN EventbriteRecord([EventbriteRaw1 EXCEPT !.start_local = IsoStart(hour, minute, suffix)])
  ELSE IF place = "seatgeek"
  THEN SeatGeekRecord([SeatGeekRaw1 EXCEPT !.datetime_local = IsoStart(hour, minute, suffix)])
  ELSE IF place = "ticketmaster"
  THEN TicketmasterRecord(
         [TicketmasterRaw1 EXCEPT !.start_obj =
            [NoDates EXCEPT !.localDateTime = IsoStart(hour, minute, suffix)]])
  ELSE TicketmasterRecord(
         [TicketmasterRaw1 EXCEPT !.start_obj =
            [NoDates EXCEPT !.localDate = <<50, 48, 50, 52, 45, 48, 49, 45, 49, 53>>,
                            !.localTime = Pad2(hour) \o <<58>> \o Pad2(minute) \o <<58, 48, 48>>]])

InitFormat ==
  /\ args \in {[function |-> "format", hour |-> h, minute |-> m, suffix |-> s] :
                 h \in 0..23, m \in {0, 30, 59}, s \in StartSuffixes}
  /\ returned = NotReturned
  /\ RestIdle

\* Each loop body builds its record for the same start time.
FormatStart ==
  /\ returned.stage = 0
  /\ returned' = [stage |-> 1,
                  records |-> [place \in FormatPlaces |->
                                 RecordAt(place, args.hour, args.minute, args.suffix)]]
  /\ UNCHANGED <<args, rest_vars>>

NextFormat == FormatStart

SpecFormat == InitFormat /\ [][NextFormat]_vars


\* ------------------------------------------------------------------------
\* _filter_events_by_type run on its own
\* ------------------------------------------------------------------------

\* Records for the filter: "Jazz Night" of type "Music", "Run" and "Yoga in
\* the Park" and "Town Hall" of type "Community", "Open Mic" of type "Perform".
FilterPool ==
  << [name |-> <<74, 97, 122, 122, 32, 78, 105, 103, 104, 116>>, time |-> <<55, 32, 80, 77>>, date |-> None,
      area |-> Seattle, type |-> <<77, 117, 115, 105, 99>>, url |-> <<>>, source |-> NoKey],
     [name |-> <<82, 117, 110>>, time |-> <<55, 32, 80, 77>>, date |-> None,
      area |-> Seattle, type |-> <<67, 111, 109, 109, 117, 110, 105, 116, 121>>, url |-> <<>>, source |-> NoKey],
     [name |-> <<89, 111, 103, 97, 32, 105, 110, 32, 116, 104, 101, 32, 80, 97, 114, 107>>, time |-> <<55, 32, 80, 77>>, date |-> None,
      area |-> Seattle, type |-> <<67, 111, 109, 109, 117, 110, 105, 116, 121>>, url |-> <<>>, source |-> NoKey],
     [name |-> <<84, 111, 119, 110, 32, 72, 97, 108, 108>>, time |-> <<55, 32, 80, 77>>, date |-> None,
      area |-> Seattle, type |-> <<67, 111, 109, 109, 117, 110, 105, 116, 121>>, url |-> <<>>, source |-> NoKey],
     [name |-> <<79, 112, 101, 110, 32, 77, 105, 99>>, time |-> <<55, 32, 80, 77>>, date |-> None,
      area |-> Seattle, type |-> <<80, 101, 114, 102, 111, 114, 109>>, url |-> <<>>, source |-> NoKey] >>

\* The categories asked for: "health", "arts", "Music " and "sports".
FilterCategories == {<<104, 101, 97, 108, 116, 104>>, <<97, 114, 116, 115>>, <<77, 117, 115, 105, 99, 32>>, <<115, 112, 111, 114, 116, 115>>}

InitFilter ==
  /\ args \in {[function |-> "_filter_events_by_type", events |-> evs, event_type |-> t] :
                 evs \in ListsUpTo(FilterPool, MaxRecords), t \in FilterCategories}
  /\ returned = NotReturned
  /\ RestIdle

\* filtered = _filter_events_by_type(events, event_type)
Filter ==
  /\ returned.stage = 0
  /\ returned' = [stage |-> 1,
                  filtered |-> _filter_events_by_type(args.events, args.event_type)]
  /\ UNCHANGED <<args, rest_vars>>

NextFilter == Filter

SpecFilter == InitFilter /\ [][NextFilter]_vars


\* ------------------------------------------------------------------------
\* Handlers side by side: the two cache reads that open every handler
\* ------------------------------------------------------------------------
\* The handlers are plain `def` functions, which the framework runs in the
\* threads of a pool; no lock guards the globals.  A thread runs
\* _get_cached_weather() and then _get_cached_air_quality() line by line,
\* and the other threads and the clock move between its lines.

\* Threads of the pool that the model runs, and the most calls it logs.
MaxThreads == 2
MaxCalls == 2

Threads == 1..MaxThreads

\* A thread that runs no handler.
Idle == [pc |-> "idle", now |-> NoTime, value |-> NoValue]

\* What the upstream does with a call made from a thread.
ThreadAnswers == {"ok", "timeout"}

InitThreads ==
  /\ env \in {[openweather |-> TRUE, google_places |-> TRUE, eventbrite |-> TRUE,
                ticketmaster |-> TRUE, seatgeek_id |-> TRUE, seatgeek_secret |-> TRUE]}
  /\ responses = [eventbrite |-> NoAnswer, ticketmaster |-> NoAnswer, seatgeek |-> NoAnswer]
  /\ query = NoQuery
  /\ result = NoResult
  /\ call = NoCall
  /\ adapter_result = NotCalled
  /\ ApiIdle
  /\ PureIdle
  /\ threads = [t \in Threads |-> Idle]
  /\ upstream_log = <<>>

\* What the steps of a thread leave alone, the globals apart.
thread_frame == <<env, responses, query, result, call, adapter_result, now, request,
                  response, pure_vars>>

\* The test of both cache readers, on the thread's `now`.
Stale(cache, t) ==
  cache = NoValue \/ _cache_timestamp = NoTime
    \/ (threads[t].now - _cache_timestamp) > CACHE_DURATION

\* A request arrives and its handler calls _get_cached_weather():
\* now = datetime.now()
Enter(t) ==
  /\ threads[t].pc = "idle"
  /\ Len(upstream_log) < MaxCalls
  /\ threads' = [threads EXCEPT ![t] = [pc |-> "weather_test", now |-> now,
                                        value |-> NoValue]]
  /\ UNCHANGED <<thread_frame, _weather_cache, _air_quality_cache, _cache_timestamp,
                 upstream_log>>

\* if _weather_cache is None or _cache_timestamp is None or ... > CACHE_DURATION
WeatherTest(t) ==
  /\ threads[t].pc = "weather_test"
  /\ threads' = [threads EXCEPT ![t].pc = IF Stale(_weather_cache, t)
                                          THEN "weather_call" ELSE "air_now"]
  /\ UNCHANGED <<thread_frame, _weather_cache, _air_quality_cache, _cache_timestamp,
                 upstream_log>>

\* get_seattle_weather() is called; an exception ends the handler.
WeatherCall(t) ==
  /\ threads[t].pc = "weather_call"
  /\ \E answer \in ThreadAnswers :
       \E w \in {get_seattle_weather(env.openweather, answer, now)} :
          /\ upstream_log' = Append(upstream_log,
                                    [now |-> threads[t].now, ok |-> w.exc = ""])
          /\ threads' = [threads EXCEPT ![t] =
                           IF w.exc # "" THEN Idle
                           ELSE [pc |-> "weather_store", now |-> threads[t].now,
                                 value |-> w.value]]
  /\ UNCHANGED <<thread_frame, _weather_cache, _air_quality_cache, _cache_timestamp>>

\* _weather_cache = (what the call returned)
WeatherStore(t) ==
  /\ threads[t].pc = "weather_store"
  /\ _weather_cache' = threads[t].value
  /\ threads' = [threads EXCEPT ![t].pc = "weather_stamp"]
  /\ UNCHANGED <<thread_frame, _air_quality_cache, _cache_timestamp, upstream_log>>

\* _cache_timestamp = now
WeatherStamp(t) ==
  /\ threads[t].pc = "weather_stamp"
  /\ _cache_timestamp' = threads[t].now
  /\ threads' = [threads EXCEPT ![t].pc = "air_now"]
  /\ UNCHANGED <<thread_frame, _weather_cache, _air_quality_cache, upstream_log>>

\* The handler calls _get_cached_air_quality(): now = datetime.now()
AirNow(t) ==
  /\ threads[t].pc = "air_now"
  /\ threads' = [threads EXCEPT ![t] = [pc |-> "air_test", now |-> now, value |-> NoValue]]
  /\ UNCHANGED <<thread_frame, _weather_cache, _air_quality_cache, _cache_timestamp,
                 upstream_log>>

\* if _air_quality_cache is None or ...: a fresh cache is returned and the
\* rest of the handler leaves the globals alone.
AirTest(t) ==
  /\ threads[t].pc = "air_test"
  /\ threads' = [threads EXCEPT ![t] = IF Stale(_air_quality_cache, t)
                                       THEN [threads[t] EXCEPT !.pc = "air_call"]
                                       ELSE Idle]
  /\ UNCHANGED <<thread_frame, _weather_cache, _air_quality_cache, _cache_timestamp,
                 upstream_log>>

\* get_seattle_air_quality() is called; it raises nothing.
AirCall(t) ==
  /\ threads[t].pc = "air_call"
  /\ \E answer \in ThreadAnswers :
       threads' = [threads EXCEPT ![t] =
                     [pc |-> "air_store", now |-> threads[t].now,
                      value |-> get_seattle_air_quality(env.openweather, answer, now)]]
  /\ UNCHANGED <<thread_frame, _weather_cache, _air_quality_cache, _cache_timestamp,
                 upstream_log>>

\* _air_quality_cache = (what the call returned)
AirStore(t) ==
  /\ threads[t].pc = "air_store"
  /\ _air_quality_cache' = threads[t].value
  /\ threads' = [threads EXCEPT ![t].pc = "air_stamp"]
  /\ UNCHANGED <<thread_frame, _weather_cache, _cache_timestamp, upstream_log>>

\* _cache_timestamp = now, and the handler goes on without the globals.
AirStamp(t) ==
  /\ threads[t].pc = "air_stamp"
  /\ _cache_timestamp' = threads[t].now
  /\ threads' = [threads EXCEPT ![t] = Idle]
  /\ UNCHANGED <<thread_frame, _weather_cache, _air_quality_cache, upstream_log>>

\* The clock moves while handlers run.
ThreadTick ==
  /\ \E minutes \in TickSteps : now + minutes <= MaxTime /\ now' = now + minutes
  /\ UNCHANGED <<env, responses, query, result, call, adapter_result,
                 _weather_cache, _air_quality_cache, _cache_timestamp, request, response,
                 pure_vars, thread_vars>>

NextThreads ==
  \/ \E t \in Threads : Enter(t)
  \/ \E t \in Threads : WeatherTest(t)
  \/ \E t \in Threads : WeatherCall(t)
  \/ \E t \in Threads : WeatherStore(t)
  \/ \E t \in Threads : WeatherStamp(t)
  \/ \E t \in Threads : AirNow(t)
  \/ \E t \in Threads : AirTest(t)
  \/ \E t \in Threads : AirCall(t)
  \/ \E t \in Threads : AirStore(t)
  \/ \E t \in Threads : AirStamp(t)
  \/ ThreadTick

SpecThreads == InitThreads /\ [][NextThreads]_vars


\* ------------------------------------------------------------------------
\* get_seattle_air_quality run on its own
\* ------------------------------------------------------------------------

\* The fields of _get_default_air_quality() that the index decides.
DefaultAirQuality ==
  [aqi |-> 50, aqi_label |-> "Good", aqi_color |-> "green",
   health_concern |-> "Air quality is satisfactory", dominant_pollutant |-> "None"]

\* A faulty variant of get_seattle_air_quality(): the request is made before
\* the key is looked at.
get_seattle_air_quality_payload_CallFirst(has_key, answer, components) ==
  { [payload |-> DefaultAirQuality, requests |-> 1] }

\* get_seattle_air_quality() with its payload and the number of requests it
\* made: without key the default and no request; with key one request, and
\* the default on any exception.
get_seattle_air_quality_payload(has_key, answer, components) ==
  IF ~has_key THEN { [payload |-> DefaultAirQuality, requests |-> 0] }
  ELSE IF answer # "ok" THEN { [payload |-> DefaultAirQuality, requests |-> 1] }
  ELSE { [payload |-> [aqi |-> r.epa_aqi, aqi_label |-> r.aqi_label,
                       aqi_color |-> r.aqi_color, health_concern |-> r.health_concern,
                       dominant_pollutant |-> r.dominant_pollutant],
          requests |-> 1] : r \in AirQualityIndex(components) }

InitAirQuality ==
  /\ args \in {[function |-> "get_seattle_air_quality", has_key |-> k, answer |-> a,
                components |-> c] :
                 k \in BOOLEAN, a \in UpstreamKinds, c \in ComponentReadings}
  /\ returned = NotReturned
  /\ RestIdle

\* air_quality = get_seattle_air_quality()
GetSeattleAirQuality ==
  /\ returned.stage = 0
  /\ \E r \in get_seattle_air_quality_payload(args.has_key, args.answer, args.components) :
        returned' = [stage |-> 1, payload |-> r.payload, requests |-> r.requests]
  /\ UNCHANGED <<args, rest_vars>>

NextAirQuality == GetSeattleAirQuality

SpecAirQuality == InitAirQuality /\ [][NextAirQuality]_vars


\* ------------------------------------------------------------------------
\* get_king_county_updates and its keyword filter
\* ------------------------------------------------------------------------

\* metro_keywords, as code points:
\*   metro, metro alert, transit, bus, light rail, link, ferry,
\*   service change, service changes, route, routes, schedule,
\*   schedules
metro_keywords ==
  { <<109, 101, 116, 114, 111>>,
    <<109, 101, 116, 114, 111, 32, 97, 108, 101, 114, 116>>,
    <<116, 114, 97, 110, 115, 105, 116>>,
    <<98, 117, 115>>,
    <<108, 105, 103, 104, 116, 32, 114, 97, 105, 108>>,
    <<108, 105, 110, 107>>,
    <<102, 101, 114, 114, 121>>,
    <<115, 101, 114, 118, 105, 99, 101, 32, 99, 104, 97, 110, 103, 101>>,
    <<115, 101, 114, 118, 105, 99, 101, 32, 99, 104, 97, 110, 103, 101, 115>>,
    <<114, 111, 117, 116, 101>>,
    <<114, 111, 117, 116, 101, 115>>,
    <<115, 99, 104, 101, 100, 117, 108, 101>>,
    <<115, 99, 104, 101, 100, 117, 108, 101, 115>> }

\* office_closure_keywords, as code points:
\*   offices will be closed, offices are closed, office closure,
\*   office will be closed, our offices, county offices, government
\*   offices, administrative offices, office hours, holiday closure,
\*   holiday schedule
office_closure_keywords ==
  { <<111, 102, 102, 105, 99, 101, 115, 32, 119, 105, 108, 108, 32, 98, 101, 32, 99, 108, 111, 115, 101, 100>>,
    <<111, 102, 102, 105, 99, 101, 115, 32, 97, 114, 101, 32, 99, 108, 111, 115, 101, 100>>,
    <<111, 102, 102, 105, 99, 101, 32, 99, 108, 111, 115, 117, 114, 101>>,
    <<111, 102, 102, 105, 99, 101, 32, 119, 105, 108, 108, 32, 98, 101, 32, 99, 108, 111, 115, 101, 100>>,
    <<111, 117, 114, 32, 111, 102, 102, 105, 99, 101, 115>>,
    <<99, 111, 117, 110, 116, 121, 32, 111, 102, 102, 105, 99, 101, 115>>,
    <<103, 111, 118, 101, 114, 110, 109, 101, 110, 116, 32, 111, 102, 102, 105, 99, 101, 115>>,
    <<97, 100, 109, 105, 110, 105, 115, 116, 114, 97, 116, 105, 118, 101, 32, 111, 102, 102, 105, 99, 101, 115>>,
    <<111, 102, 102, 105, 99, 101, 32, 104, 111, 117, 114, 115>>,
    <<104, 111, 108, 105, 100, 97, 121, 32, 99, 108, 111, 115, 117, 114, 101>>,
    <<104, 111, 108, 105, 100, 97, 121, 32, 115, 99, 104, 101, 100, 117, 108, 101>> }

\* generic_schedule_phrases, as code points:
\*   schedules may be different, schedule may be different, schedules
\*   will be different, schedule will be different, service schedules
\*   may be different, transit and service schedules may be different
generic_schedule_phrases ==
  { <<115, 99, 104, 101, 100, 117, 108, 101, 115, 32, 109, 97, 121, 32, 98, 101, 32, 100, 105, 102, 102, 101, 114, 101, 110, 116>>,
    <<115, 99, 104, 101, 100, 117, 108, 101, 32, 109, 97, 121, 32, 98, 101, 32, 100, 105, 102, 102, 101, 114, 101, 110, 116>>,
    <<115, 99, 104, 101, 100, 117, 108, 101, 115, 32, 119, 105, 108, 108, 32, 98, 101, 32, 100, 105, 102, 102, 101, 114, 101, 110, 116>>,
    <<115, 99, 104, 101, 100, 117, 108, 101, 32, 119, 105, 108, 108, 32, 98, 101, 32, 100, 105, 102, 102, 101, 114, 101, 110, 116>>,
    <<115, 101, 114, 118, 105, 99, 101, 32, 115, 99, 104, 101, 100, 117, 108, 101, 115, 32, 109, 97, 121, 32, 98, 101, 32, 100, 105, 102, 102, 101, 114, 101, 110, 116>>,
    <<116, 114, 97, 110, 115, 105, 116, 32, 97, 110, 100, 32, 115, 101, 114, 118, 105, 99, 101, 32, 115, 99, 104, 101, 100, 117, 108, 101, 115, 32, 109, 97, 121, 32, 98, 101, 32, 100, 105, 102, 102, 101, 114, 101, 110, 116>> }

\* holiday_names, as code points:
\*   new year's day, new years day, christmas, thanksgiving,
\*   independence day, memorial day, labor day, presidents day,
\*   columbus day, veterans day, martin luther king, mlk day
holiday_names ==
  { <<110, 101, 119, 32, 121, 101, 97, 114, 39, 115, 32, 100, 97, 121>>,
    <<110, 101, 119, 32, 121, 101, 97, 114, 115, 32, 100, 97, 121>>,
    <<99, 104, 114, 105, 115, 116, 109, 97, 115>>,
    <<116, 104, 97, 110, 107, 115, 103, 105, 118, 105, 110, 103>>,
    <<105, 110, 100, 101, 112, 101, 110, 100, 101, 110, 99, 101, 32, 100, 97, 121>>,
    <<109, 101, 109, 111, 114, 105, 97, 108, 32, 100, 97, 121>>,
    <<108, 97, 98, 111, 114, 32, 100, 97, 121>>,
    <<112, 114, 101, 115, 105, 100, 101, 110, 116, 115, 32, 100, 97, 121>>,
    <<99, 111, 108, 117, 109, 98, 117, 115, 32, 100, 97, 121>>,
    <<118, 101, 116, 101, 114, 97, 110, 115, 32, 100, 97, 121>>,
    <<109, 97, 114, 116, 105, 110, 32, 108, 117, 116, 104, 101, 114, 32, 107, 105, 110, 103>>,
    <<109, 108, 107, 32, 100, 97, 121>> }

\* traffic_keywords, as code points:
\*   traffic, highway, highways, i-5, i-90, i-405, sr-520, sr-99,
\*   bridge, tunnel, lane closure, road closure, ramp closure, express
\*   lane, hov, carpool, accident, incident, construction, delay,
\*   delays, delayed, detour, detours, closed, closure, closures,
\*   backup, congestion, blocked
traffic_keywords ==
  { <<116, 114, 97, 102, 102, 105, 99>>,
    <<104, 105, 103, 104, 119, 97, 121>>,
    <<104, 105, 103, 104, 119, 97, 121, 115>>,
    <<105, 45, 53>>,
    <<105, 45, 57, 48>>,
    <<105, 45, 52, 48, 53>>,
    <<115, 114, 45, 53, 50, 48>>,
    <<115, 114, 45, 57, 57>>,
    <<98, 114, 105, 100, 103, 101>>,
    <<116, 117, 110, 110, 101, 108>>,
    <<108, 97, 110, 101, 32, 99, 108, 111, 115, 117, 114, 101>>,
    <<114, 111, 97, 100, 32, 99, 108, 111, 115, 117, 114, 101>>,
    <<114, 97, 109, 112, 32, 99, 108, 111, 115, 117, 114, 101>>,
    <<101, 120, 112, 114, 101, 115, 115, 32, 108, 97, 110, 101>>,
    <<104, 111, 118>>,
    <<99, 97, 114, 112, 111, 111, 108>>,
    <<97, 99, 99, 105, 100, 101, 110, 116>>,
    <<105, 110, 99, 105, 100, 101, 110, 116>>,
    <<99, 111, 110, 115, 116, 114, 117, 99, 116, 105, 111, 110>>,
    <<100, 101, 108, 97, 121>>,
    <<100, 101, 108, 97, 121, 115>>,
    <<100, 101, 108, 97, 121, 101, 100>>,
    <<100, 101, 116, 111, 117, 114>>,
    <<100, 101, 116, 111, 117, 114, 115>>,
    <<99, 108, 111, 115, 101, 100>>,
    <<99, 108, 111, 115, 117, 114, 101>>,
    <<99, 108, 111, 115, 117, 114, 101, 115>>,
    <<98, 97, 99, 107, 117, 112>>,
    <<99, 111, 110, 103, 101, 115, 116, 105, 111, 110>>,
    <<98, 108, 111, 99, 107, 101, 100>> }

\* "Check Metro service advisories if commuting"
DefaultAdvice ==
  <<67, 104, 101, 99, 107, 32, 77, 101, 116, 114, 111, 32, 115, 101, 114, 118, 105, 99, 101, 32, 97, 100, 118, 105, 115, 111, 114, 105, 101, 115, 32, 105, 102, 32, 99, 111, 109, 109, 117, 116, 105, 110, 103>>

\* "Metro Alert: Route 40 detour on Westlake Avenue"
MetroDetour ==
  <<77, 101, 116, 114, 111, 32, 65, 108, 101, 114, 116, 58, 32, 82, 111, 117, 116, 101, 32, 52, 48, 32, 100, 101, 116, 111, 117, 114, 32, 111, 110, 32, 87, 101, 115, 116, 108, 97, 107, 101, 32, 65, 118, 101, 110, 117, 101>>

\* "Metro service changes may be in effect - check routes before traveling"
MetroGeneric ==
  <<77, 101, 116, 114, 111, 32, 115, 101, 114, 118, 105, 99, 101, 32, 99, 104, 97, 110, 103, 101, 115, 32, 109, 97, 121, 32, 98, 101, 32, 105, 110, 32, 101, 102, 102, 101, 99, 116, 32, 45, 32, 99, 104, 101, 99, 107, 32, 114, 111, 117, 116, 101, 115, 32, 98, 101, 102, 111, 114, 101, 32, 116, 114, 97, 118, 101, 108, 105, 110, 103>>

\* "King County: I-5 lane closure near Northgate this weekend"
NewsLaneClosure ==
  <<75, 105, 110, 103, 32, 67, 111, 117, 110, 116, 121, 58, 32, 73, 45, 53, 32, 108, 97, 110, 101, 32, 99, 108, 111, 115, 117, 114, 101, 32, 110, 101, 97, 114, 32, 78, 111, 114, 116, 104, 103, 97, 116, 101, 32, 116, 104, 105, 115, 32, 119, 101, 101, 107, 101, 110, 100>>

\* "King County: County offices closed Monday for storm cleanup"
NewsOfficesClosed ==
  <<75, 105, 110, 103, 32, 67, 111, 117, 110, 116, 121, 58, 32, 67, 111, 117, 110, 116, 121, 32, 111, 102, 102, 105, 99, 101, 115, 32, 99, 108, 111, 115, 101, 100, 32, 77, 111, 110, 100, 97, 121, 32, 102, 111, 114, 32, 115, 116, 111, 114, 109, 32, 99, 108, 101, 97, 110, 117, 112>>

\* "King County: Council adopts the budget for next year"
NewsBudget ==
  <<75, 105, 110, 103, 32, 67, 111, 117, 110, 116, 121, 58, 32, 67, 111, 117, 110, 99, 105, 108, 32, 97, 100, 111, 112, 116, 115, 32, 116, 104, 101, 32, 98, 117, 100, 103, 101, 116, 32, 102, 111, 114, 32, 110, 101, 120, 116, 32, 121, 101, 97, 114>>

\* "King County: Our offices are closed for Thanksgiving, schedules may be different"
NewsHoliday ==
  <<75, 105, 110, 103, 32, 67, 111, 117, 110, 116, 121, 58, 32, 79, 117, 114, 32, 111, 102, 102, 105, 99, 101, 115, 32, 97, 114, 101, 32, 99, 108, 111, 115, 101, 100, 32, 102, 111, 114, 32, 84, 104, 97, 110, 107, 115, 103, 105, 118, 105, 110, 103, 44, 32, 115, 99, 104, 101, 100, 117, 108, 101, 115, 32, 109, 97, 121, 32, 98, 101, 32, 100, 105, 102, 102, 101, 114, 101, 110, 116>>

\* "King County: Office hours change next month at the permit desk"
NewsOfficeHours ==
  <<75, 105, 110, 103, 32, 67, 111, 117, 110, 116, 121, 58, 32, 79, 102, 102, 105, 99, 101, 32, 104, 111, 117, 114, 115, 32, 99, 104, 97, 110, 103, 101, 32, 110, 101, 120, 116, 32, 109, 111, 110, 116, 104, 32, 97, 116, 32, 116, 104, 101, 32, 112, 101, 114, 109, 105, 116, 32, 100, 101, 115, 107>>

\* What _get_metro_alerts() can return here: nothing, one alert, two alerts,
\* or the generic notice it adds when no alert element was found.
MetroAlertLists == { <<>>, <<MetroDetour>>, <<MetroDetour, MetroDetour>>, <<MetroGeneric>> }

\* What _get_county_news() can return here: at most two items (the [:2]
\* slice) out of five texts.
NewsTexts == {NewsLaneClosure, NewsOfficesClosed, NewsBudget, NewsHoliday, NewsOfficeHours}
CountyNewsLists ==
  {<<>>} \cup {<<a>> : a \in NewsTexts} \cup {<<a, b>> : a \in NewsTexts, b \in NewsTexts}

\* any(keyword in update_lower for keyword in keywords)
AnyIn(keywords, update_lower) == \E keyword \in keywords : Contains(keyword, update_lower)

\* One pass of the loop of _filter_relevant_updates: is `update` appended?
KeepsUpdate(update) ==
  LET update_lower == Lower(update)
      is_metro_alert == AnyIn(metro_keywords, update_lower)
      is_holiday_notice == AnyIn(holiday_names, update_lower)
      is_office_closure == AnyIn(office_closure_keywords, update_lower)
      is_generic_schedule == AnyIn(generic_schedule_phrases, update_lower)
      has_traffic_info == AnyIn(traffic_keywords, update_lower)
  IN  IF is_metro_alert THEN FALSE
      ELSE IF is_holiday_notice /\ is_office_closure /\ is_generic_schedule
              /\ ~has_traffic_info THEN FALSE
      ELSE IF is_office_closure /\ ~has_traffic_info THEN FALSE
      ELSE has_traffic_info

\* _filter_relevant_updates(updates)
_filter_relevant_updates(updates) == SelectSeq(updates, KeepsUpdate)

\* A faulty variant of KingCountyUpdates: the closing `if not updates` is
\* missing, so the list is whatever the filter left.
KingCountyUpdates_NoDefault(raised, metro_updates, county_news) ==
  _filter_relevant_updates(
    IF raised = "metro" THEN <<DefaultAdvice>>
    ELSE IF raised = "county" THEN metro_updates \o <<DefaultAdvice>>
    ELSE metro_updates \o county_news)

\* get_king_county_updates() on the lists the two scrapers return; `raised`
\* names the scraper whose exception reaches the except clause of lines
\* 30-33, "none" when both return.
KingCountyUpdates(raised, metro_updates, county_news) ==
  LET fetched == IF raised = "metro" THEN <<DefaultAdvice>>
                 ELSE IF raised = "county" THEN metro_updates \o <<DefaultAdvice>>
                 ELSE metro_updates \o county_news
      updates == _filter_relevant_updates(fetched)
  IN  IF updates = <<>> THEN <<DefaultAdvice>> ELSE updates

InitCounty ==
  /\ args \in {[function |-> "get_king_county_updates", raised |-> r,
                metro_updates |-> m, county_news |-> c] :
                 r \in {"none", "metro", "county"}, m \in MetroAlertLists,
                 c \in CountyNewsLists}
  /\ returned = NotReturned
  /\ RestIdle

\* updates = get_king_county_updates()
GetKingCountyUpdates ==
  /\ returned.stage = 0
  /\ returned' = [stage |-> 1,
                  updates |-> KingCountyUpdates(args.raised, args.metro_updates,
                                                args.county_news)]
  /\ UNCHANGED <<args, rest_vars>>

NextCounty == GetKingCountyUpdates

SpecCounty == InitCounty /\ [][NextCounty]_vars


\* ------------------------------------------------------------------------
\* The pagination loop of get_seattle_food_joints
\* ------------------------------------------------------------------------

\* max_pages = 3
max_pages == 3

\* The follow-up requests one run may make before the model stops counting;
\* above what max_pages allows.
MaxRequests == 4

\* "tok"
PageToken == <<116, 111, 107>>

\* data.get("next_page_token"): absent, null, empty or a token.
PageTokens == {NoKey, None, <<>>, PageToken}

\* What requests.get answers to a follow-up request: an exception, or a
\* response with its HTTP status, the "status" of its body, its token and the
\* number of its results.
FollowUpAnswers ==
  {[raises |-> TRUE, status_code |-> 0, status |-> "", next_page_token |-> NoKey,
    results |-> 0]}
  \cup {[raises |-> FALSE, status_code |-> c, status |-> s, next_page_token |-> k,
          results |-> n] :
          c \in {200, 500}, s \in {"OK", "INVALID_REQUEST"}, k \in PageTokens,
          n \in {0, 20}}

\* A faulty variant of LoopContinues: the page limit is not tested.
LoopContinues_NoPageLimit(page_token, page_count) == Truthy(page_token)

\* while page_token and page_count < max_pages
LoopContinues(page_token, page_count) == Truthy(page_token) /\ page_count < max_pages

InitPages ==
  /\ args \in {[function |-> "get_seattle_food_joints", next_page_token |-> k,
                results |-> n] : k \in PageTokens, n \in {0, 20}}
  /\ returned = NotReturned
  /\ RestIdle

\* The first page answered "OK": its results and its token are taken.
FirstPage ==
  /\ returned.stage = 0
  /\ returned' = [stage |-> 1, page_token |-> args.next_page_token, page_count |-> 1,
                  places_to_process |-> args.results, seen |-> <<>>]
  /\ UNCHANGED <<args, rest_vars>>

\* One pass of the while loop: a follow-up request and what its answer does.
FollowUp ==
  /\ returned.stage = 1
  /\ LoopContinues(returned.page_token, returned.page_count)
  /\ Len(returned.seen) < MaxRequests
  /\ \E next_response \in FollowUpAnswers :
        returned' =
          IF ~next_response.raises /\ next_response.status_code = 200
             /\ next_response.status = "OK"
          THEN [stage |-> 1, page_token |-> next_response.next_page_token,
                page_count |-> returned.page_count + 1,
                places_to_process |-> returned.places_to_process + next_response.results,
                seen |-> Append(returned.seen, next_response)]
          ELSE [returned EXCEPT !.stage = 2, !.seen = Append(returned.seen, next_response)]
  /\ UNCHANGED <<args, rest_vars>>

\* The while test fails and the function goes on to the place details.
LeaveLoop ==
  /\ returned.stage = 1
  /\ ~LoopContinues(returned.page_token, returned.page_count)
  /\ returned' = [returned EXCEPT !.stage = 2]
  /\ UNCHANGED <<args, rest_vars>>

NextPages == FirstPage \/ FollowUp \/ LeaveLoop

\* The loop runs in one thread, and requests.get returns or raises within its
\* timeout of 10 seconds, so a step that can be taken is taken.
SpecPages == InitPages /\ [][NextPages]_vars /\ WF_vars(NextPages)


\* ------------------------------------------------------------------------
\* get_seattle_food_joints and its price filter
\* ------------------------------------------------------------------------

\* The list all_food_joints of _get_placeholder_food_joints, each joint with
\* its name and its price_range.
all_food_joints ==
  <<
     \* Pike Place Chowder, $$
     [name |-> <<80, 105, 107, 101, 32, 80, 108, 97, 99, 101, 32, 67, 104, 111, 119, 100, 101, 114>>,
      price_range |-> <<36, 36>>],
     \* Canlis, $$$$
     [name |-> <<67, 97, 110, 108, 105, 115>>,
      price_range |-> <<36, 36, 36, 36>>],
     \* Tilikum Place Cafe, $$
     [name |-> <<84, 105, 108, 105, 107, 117, 109, 32, 80, 108, 97, 99, 101, 32, 67, 97, 102, 101>>,
      price_range |-> <<36, 36>>],
     \* Mamnoon, $$$
     [name |-> <<77, 97, 109, 110, 111, 111, 110>>,
      price_range |-> <<36, 36, 36>>],
     \* Stateside, $$
     [name |-> <<83, 116, 97, 116, 101, 115, 105, 100, 101>>,
      price_range |-> <<36, 36>>],
     \* Revel, $$
     [name |-> <<82, 101, 118, 101, 108>>,
      price_range |-> <<36, 36>>],
     \* The Walrus and the Carpenter, $$$
     [name |-> <<84, 104, 101, 32, 87, 97, 108, 114, 117, 115, 32, 97, 110, 100, 32, 116, 104, 101, 32, 67, 97, 114, 112, 101, 110, 116, 101, 114>>,
      price_range |-> <<36, 36, 36>>],
     \* Toulouse Petit, $$$
     [name |-> <<84, 111, 117, 108, 111, 117, 115, 101, 32, 80, 101, 116, 105, 116>>,
      price_range |-> <<36, 36, 36>>],
     \* Din Tai Fung, $$
     [name |-> <<68, 105, 110, 32, 84, 97, 105, 32, 70, 117, 110, 103>>,
      price_range |-> <<36, 36>>],
     \* Joule, $$$
     [name |-> <<74, 111, 117, 108, 101>>,
      price_range |-> <<36, 36, 36>>],
     \* Terra Plata, $$$
     [name |-> <<84, 101, 114, 114, 97, 32, 80, 108, 97, 116, 97>>,
      price_range |-> <<36, 36, 36>>],
     \* The Pink Door, $$$
     [name |-> <<84, 104, 101, 32, 80, 105, 110, 107, 32, 68, 111, 111, 114>>,
      price_range |-> <<36, 36, 36>>],
     \* Salare, $$$
     [name |-> <<83, 97, 108, 97, 114, 101>>,
      price_range |-> <<36, 36, 36>>],
     \* Fremont Bowl, $
     [name |-> <<70, 114, 101, 109, 111, 110, 116, 32, 66, 111, 119, 108>>,
      price_range |-> <<36>>],
     \* Marination Ma Kai, $
     [name |-> <<77, 97, 114, 105, 110, 97, 116, 105, 111, 110, 32, 77, 97, 32, 75, 97, 105>>,
      price_range |-> <<36>>]
  >>

\* A faulty variant of _get_placeholder_food_joints: the price filter is left
\* out.
_get_placeholder_food_joints_Unfiltered(price_range) == Slice(all_food_joints, 0, 20)

\* _get_placeholder_food_joints(None, None, price_range): get_food passes no
\* area and no cuisine.
_get_placeholder_food_joints(price_range) ==
  LET JointMatches(joint) == joint.price_range = price_range
      filtered == IF Truthy(price_range) THEN SelectSeq(all_food_joints, JointMatches)
                  ELSE all_food_joints
  IN  Slice(filtered, 0, 20)

\* _price_level_to_range(price_level), the level being NoKey (absent, so the
\* default 2 of place.get), None, or <<n>> for the integer n.
_price_level_to_range(price_level) ==
  IF price_level = None THEN <<36, 36>>
  ELSE IF price_level = NoKey THEN <<36, 36>>
  ELSE IF price_level[1] \in {0, 1} THEN <<36>>
  ELSE IF price_level[1] \in {2, 3, 4} THEN [i \in 1..price_level[1] |-> 36]
  ELSE <<36, 36>>

\* Places of the Places answer: name, formatted_address, rating (in tenths)
\* and price_level. The fourth repeats the first with another price level,
\* the sixth has a null name.
Places ==
  << [name |-> <<65>>, formatted_address |-> <<49>>, rating |-> 45, price_level |-> <<1>>],
     [name |-> <<66>>, formatted_address |-> <<50>>, rating |-> 47, price_level |-> NoKey],
     [name |-> <<67>>, formatted_address |-> <<51>>, rating |-> 40, price_level |-> <<4>>],
     [name |-> <<97>>, formatted_address |-> <<49>>, rating |-> 30, price_level |-> <<3>>],
     [name |-> <<68>>, formatted_address |-> <<52>>, rating |-> 47, price_level |-> <<7>>],
     [name |-> None, formatted_address |-> <<53>>, rating |-> 41, price_level |-> None] >>

\* What the first Places request does: it raises, answers with a status other
\* than "OK", or answers "OK" with up to two places.
PlacesAnswers ==
  {[kind |-> "timeout", results |-> <<>>], [kind |-> "denied", results |-> <<>>]}
  \cup {[kind |-> "ok", results |-> r] :
          r \in {<<>>} \cup {<<Places[i]>> : i \in 1..Len(Places)}
                \cup {<<Places[i], Places[j]>> : i \in 1..Len(Places), j \in 1..Len(Places)}}

\* The dict appended to all_food_joints for one place.
JointOf(place) ==
  [name |-> place.name, address |-> place.formatted_address, rating |-> place.rating,
   price_range |-> _price_level_to_range(place.price_level)]

\* The loop over (name.lower(), address.lower()): the first joint of each key.
UniqueJoints(joints) ==
  LET key(i) == <<Lower(joints[i].name), Lower(joints[i].address)>>
  IN  AtIndices(joints, {i \in 1..Len(joints) : \A j \in 1..(i - 1) : key(j) # key(i)})

\* unique_food_joints.sort(key=rating, reverse=True): a stable sort.
SortByRating(joints) ==
  LET Before(i, j) == \/ joints[i].rating > joints[j].rating
                      \/ joints[i].rating = joints[j].rating /\ i < j
      rank(i) == 1 + Cardinality({j \in 1..Len(joints) : Before(j, i)})
  IN  [k \in 1..Len(joints) |-> joints[CHOOSE i \in 1..Len(joints) : rank(i) = k]]

\* The joints of the placeholder list carry no rating; the claims read name
\* and price_range only.
Placeholder(path, price_range) ==
  [path |-> path,
   food_joints |-> [i \in 1..Len(_get_placeholder_food_joints(price_range)) |->
                      [name |-> _get_placeholder_food_joints(price_range)[i].name,
                       price_range |-> _get_placeholder_food_joints(price_range)[i].price_range]]]

\* get_seattle_food_joints(None, None, price_range) with the path it took.
FoodJoints(has_key, answer, price_range) ==
  IF ~has_key THEN Placeholder("no key", price_range)
  ELSE LET all == IF answer.kind = "ok"
                  THEN [i \in 1..Len(answer.results) |-> JointOf(answer.results[i])]
                  ELSE <<>>
       IN  IF \E i \in 1..Len(all) : all[i].name = None
           THEN Placeholder("error", price_range)
           ELSE IF all = <<>> THEN Placeholder("no results", price_range)
           ELSE LET sorted == SortByRating(UniqueJoints(all))
                    JointMatches(joint) == joint.price_range = price_range
                    filtered == IF Truthy(price_range) THEN SelectSeq(sorted, JointMatches)
                                ELSE sorted
                IN  [path |-> "live",
                     food_joints |-> [i \in 1..Len(filtered) |->
                                        [name |-> filtered[i].name,
                                         price_range |-> filtered[i].price_range]]]

\* The price_range arguments: none, empty, the four of get_price_ranges(),
\* and one that no joint has ("cheap").
PriceRanges ==
  {None, <<>>, <<36>>, <<36, 36>>, <<36, 36, 36>>, <<36, 36, 36, 36>>,
   <<99, 104, 101, 97, 112>>}

InitFood ==
  /\ args \in {[function |-> "get_seattle_food_joints", has_key |-> k, answer |-> a,
                price_range |-> p] :
                 k \in BOOLEAN, a \in PlacesAnswers, p \in PriceRanges}
  /\ returned = NotReturned
  /\ RestIdle

\* food_joints = get_seattle_food_joints(area=None, cuisine=None, price_range=price_range)
GetSeattleFoodJoints ==
  /\ returned.stage = 0
  /\ \E r \in {FoodJoints(args.has_key, args.answer, args.price_range)} :
        returned' = [stage |-> 1, path |-> r.path, food_joints |-> r.food_joints]
  /\ UNCHANGED <<args, rest_vars>>

NextFood == GetSeattleFoodJoints

SpecFood == InitFood /\ [][NextFood]_vars


\* ------------------------------------------------------------------------
\* Properties of the pipeline (SpecEvents)
\* ------------------------------------------------------------------------

\* The call has returned a list.
Returns == result.path # "none" /\ result.exc = ""

\* The concatenation the call deduplicated: Eventbrite, Ticketmaster, SeatGeek.
LiveEvents == result.eventbrite.events \o result.ticketmaster.events \o result.seatgeek.events

Range(s) == {s[i] : i \in 1..Len(s)}

\* The record passes the category post-filter of the query.
PassesFilter(e) ==
  \/ ~Truthy(query.event_type)
  \/ \E terms \in {possible_matches(Strip(Lower(query.event_type)))} :
        TypeMatches(e, terms) \/ NameMatches(e, terms)

\* No two records of the static placeholder list share a dedup key.
PlaceholderKeysUnique ==
  \A i, j \in 1..Len(placeholder_events) :
     i # j => DedupKey(placeholder_events[i]) # DedupKey(placeholder_events[j])

\* C1: whatever the adapters return and whatever category and limit are asked
\* for, no two records of the list get_seattle_events returns share the key
\* (name.lower().strip(), time); on the placeholder path the list is a sublist
\* of the static list, whose keys are pairwise different.
C1_KeyUniqueness ==
  /\ PlaceholderKeysUnique
  /\ Returns =>
       /\ \A i, j \in 1..Len(result.events) :
             i # j => DedupKey(result.events[i]) # DedupKey(result.events[j])
       /\ result.path = "placeholder" => Range(result.events) \subseteq Range(placeholder_events)

\* Two adapter records shared a key and the call returned two live records.
C1_Witness ==
  /\ Returns /\ result.path = "live" /\ Len(result.events) >= 2
  /\ \E i, j \in 1..Len(LiveEvents) :
        i # j /\ DedupKey(LiveEvents[i]) = DedupKey(LiveEvents[j])

\* C2 (as claimed): when every adapter returns an empty list and a category
\* is asked for, the list returned is the full placeholder list filtered by
\* that category, truncated to limit.
C2_PlaceholderFallbackTotality ==
  (Returns /\ LiveEvents = <<>> /\ Truthy(query.event_type)) =>
     result.events =
       Slice(_filter_events_by_type(placeholder_events, query.event_type).events,
             0, query.limit)

\* C9: the list get_seattle_events returns never has more than limit records.
C9_AtMostLimit == Returns => Len(result.events) <= query.limit

\* More live records survived than the limit allows, and the list is full.
C9_Witness ==
  /\ Returns /\ result.path = "live"
  /\ Len(DedupLoop(LiveEvents)) > query.limit
  /\ ~Truthy(query.event_type)
  /\ Len(result.events) = query.limit

\* The live record at index i survives deduplication and the category filter.
Survives(i) ==
  /\ \A j \in 1..(i - 1) : DedupKey(LiveEvents[j]) # DedupKey(LiveEvents[i])
  /\ PassesFilter(LiveEvents[i])

\* C10: the list consists only of surviving live records when a live record
\* survives deduplication and the category filter, and only of placeholder
\* records exactly when none survives.
C10_NeverBlended ==
  Returns =>
    IF \E i \in 1..Len(LiveEvents) : Survives(i)
    THEN /\ result.path = "live"
         /\ Range(result.events) \subseteq {LiveEvents[i] : i \in {k \in 1..Len(LiveEvents) : Survives(k)}}
    ELSE /\ result.path = "placeholder"
         /\ Range(result.events) \subseteq Range(placeholder_events)

\* Live records existed, the category filter removed them all, and the call
\* returned placeholder records.
C10_Witness ==
  /\ Returns /\ LiveEvents # <<>> /\ result.path = "placeholder"
  /\ result.events # <<>>

\* ------------------------------------------------------------------------
\* Properties of the adapters (SpecAdapter)
\* ------------------------------------------------------------------------

\* The credentials the called adapter needs are set.
HasCredentials ==
  \/ (call.provider = "eventbrite" /\ env.eventbrite)
  \/ (call.provider = "ticketmaster" /\ env.ticketmaster)
  \/ (call.provider = "seatgeek" /\ env.seatgeek_id /\ env.seatgeek_secret)

\* The raw records the called adapter loops over.
Processed ==
  IF call.provider = "eventbrite" THEN call.response.events
  ELSE Slice(call.response.events, 0, call.limit)

\* One pass of the called adapter's loop body on a raw record.
RecordOf(event) ==
  IF call.provider = "eventbrite" THEN EventbriteRecord(event)
  ELSE IF call.provider = "ticketmaster" THEN TicketmasterRecord(event)
  ELSE SeatGeekRecord(event)

\* C4: an adapter never raises to its caller, and on a network failure, a
\* timeout, a non-2xx status or a malformed payload it returns an empty list.
C4_AdapterNeverRaises ==
  adapter_result.called =>
    /\ adapter_result.exc = ""
    /\ call.response.kind \in FailureKinds => adapter_result.events = <<>>

\* An adapter with credentials was called and the request timed out.
C4_Witness ==
  /\ adapter_result.called /\ HasCredentials
  /\ call.response.kind = "timeout"

\* C5 (as claimed): a record that fails to parse is isolated: every
\* well-formed record of the same answer is still returned.
C5_RecordFailureIsolated ==
  (adapter_result.called /\ HasCredentials /\ call.response.kind = "ok") =>
     \A i \in 1..Len(Processed) :
        RecordOf(Processed[i]).exc = "" =>
           RecordOf(Processed[i]).rec \in Range(adapter_result.events)

\* ------------------------------------------------------------------------
\* Properties of the request handlers (SpecApi)
\* ------------------------------------------------------------------------

\* The exceptions get_seattle_weather lets escape.
WeatherExceptions == {"RuntimeError", "Timeout", "HTTPError", "KeyError"}

\* An area matches a requested location: case-insensitive, equal or substring.
AreaMatches(area, locs) ==
  \E i \in 1..Len(locs) :
     Lower(locs[i]) = Lower(area) \/ Contains(Lower(locs[i]), Lower(area))

\* C3 (as claimed): a GET /api/events request with a location filter, whose
\* weather read succeeds, completes; every record of `events` has an area
\* matching a requested location; and `locations` holds the areas of the
\* aggregation run without the location filter.
C3_LocationFilter ==
  (response.status # "none" /\ request.endpoint = "events"
   /\ Truthy(request.locations) /\ response.exc \notin WeatherExceptions) =>
     /\ response.status = "ok"
     /\ \A i \in 1..Len(response.events) :
           AreaMatches(response.events[i].area, location_list(request.locations))
     /\ response.locations =
          unique_locations(get_seattle_events(env, responses, request.event_type,
                                              request.event_limit * 3).events)

\* C6 (as claimed): with the weather key set, a GET /api/overview request
\* never fails, whatever the upstreams answer.
C6_OverviewNeverFails ==
  (response.status # "none" /\ request.endpoint = "overview" /\ env.openweather) =>
     response.status = "ok"

\* The environment with every credential other than the weather key set.
WithOtherCredentials ==
  [env EXCEPT !.google_places = TRUE, !.eventbrite = TRUE, !.ticketmaster = TRUE,
              !.seatgeek_id = TRUE, !.seatgeek_secret = TRUE]

\* C7: without the weather key every request fails with the RuntimeError of
\* get_seattle_weather, returns no weather and leaves the weather cache
\* empty; and a request that fails while the weather key is set fails in the
\* same way when every other credential is set as well.
C7_WeatherKeyRequired ==
  /\ ~env.openweather =>
       /\ _weather_cache = NoValue
       /\ response.status # "none" =>
            /\ response.status = "error" /\ response.exc = "RuntimeError"
            /\ response.weather = NoValue
  /\ (env.openweather /\ response.status = "error") =>
       \E r \in {Handle(request, request.before, request.at, WithOtherCredentials, responses)} :
          r.status = "error" /\ r.exc = response.exc

\* Without the weather key, and without the places and Eventbrite keys, a
\* request has been answered after time has passed.
C7_Witness ==
  /\ ~env.openweather /\ ~env.google_places /\ ~env.eventbrite
  /\ request.endpoint = "food" /\ request.at >= 1
  /\ response.status = "error"

\* C8 (as claimed): the weather and the air quality a response carries were
\* fetched from their upstream no more than CACHE_DURATION before the request.
C8_CacheFreshness ==
  (response.status = "ok" /\ response.air_quality.kind = "live") =>
     /\ request.at - response.weather.fetched_at <= CACHE_DURATION
     /\ request.at - response.air_quality.fetched_at <= CACHE_DURATION

\* ------------------------------------------------------------------------
\* Properties of _deduplicate_events on its own (SpecDedup)
\* ------------------------------------------------------------------------

\* C11: _deduplicate_events applied to its own output returns that output
\* unchanged (same records, same order), and applied a second time to the
\* same input it returns the same list as the first time.
C11_DedupIdempotent ==
  returned.stage = 2 =>
     /\ returned.twice = returned.once
     /\ returned.rerun = returned.once

\* Three records went in, one was dropped as a duplicate, two came out and
\* were deduplicated again.
C11_Witness ==
  /\ returned.stage = 2
  /\ Len(args.events) = 3
  /\ Len(returned.once.events) = 2

\* ------------------------------------------------------------------------
\* Properties of the EPA index (SpecAqi)
\* ------------------------------------------------------------------------

\* _calculate_epa_aqi has returned for the concentration of args.
AqiReturned == returned.stage = 1 /\ args.function = "_calculate_epa_aqi"

\* The brackets of the pollutant of args.
Brackets == EPA_AQI_BREAKPOINTS[args.pollutant]

\* C12: within a bracket the index never decreases as the concentration
\* grows (by half a unit and by a unit of the table), and one unit above the
\* top of a bracket the index is the bottom index of the next bracket, one
\* more than the top index it had at the top.
C12_AqiMonotone ==
  AqiReturned =>
    \A i \in 1..Len(Brackets) :
       /\ (Covers(Brackets[i], args.concentration)
           /\ Covers(Brackets[i], Above(args.concentration, 1))) => returned.aqi <= returned.half
       /\ (Covers(Brackets[i], Above(args.concentration, 1))
           /\ Covers(Brackets[i], Above(args.concentration, 2))) => returned.half <= returned.next
       /\ (args.concentration.num = Brackets[i][2] * args.concentration.den /\ i < Len(Brackets)) =>
             /\ returned.aqi = Brackets[i][4]
             /\ returned.next = Brackets[i + 1][3]
             /\ returned.next = returned.aqi + 1

\* PM2.5 at 12.0 gave 50 and at 12.1 gave 51.
C12_Witness ==
  /\ AqiReturned /\ args.pollutant = "pm2_5"
  /\ args.concentration = Conc(240, 2, TRUE)
  /\ returned.aqi = 50 /\ returned.next = 51

\* The reading of the scenario: 40 micrograms of PM2.5, nothing else.
Scenario == [pm2_5 |-> 4000, pm10 |-> 0, o3 |-> 0, no2 |-> 0, co |-> 0]
ScenarioComputed ==
  returned.stage = 1 /\ args.function = "get_seattle_air_quality" /\ args.components = Scenario

\* C13 (as claimed): for the scenario the PM2.5 index is 110, the overall
\* index is 110 and the dominant pollutant is PM2.5.
C13_ScenarioAsClaimed ==
  ScenarioComputed =>
     /\ returned.air_quality.aqi.pm2_5 = 110
     /\ returned.air_quality.epa_aqi = 110
     /\ returned.air_quality.dominant_pollutant = "PM2.5"

\* C13 (amended): for the scenario the PM2.5 index, interpolated in the
\* 35.5-55.4 bracket, is 112, the overall index is 112 and the dominant
\* pollutant is PM2.5.
C13_Scenario ==
  ScenarioComputed =>
     /\ returned.air_quality.aqi.pm2_5 = 112
     /\ returned.air_quality.epa_aqi = 112
     /\ returned.air_quality.dominant_pollutant = "PM2.5"

\* The scenario has been computed, from the third bracket of the table.
C13_Witness ==
  /\ ScenarioComputed
  /\ Covers(EPA_AQI_BREAKPOINTS.pm2_5[3], Converted(args.components).pm2_5)

\* C18 (as claimed): for a concentration between 0 and the top of the table
\* the index is at most the high index of a bracket that covers it, and it is
\* 500 only at the top of the table.
C18_BracketCovers ==
  (AqiReturned /\ args.concentration.num <= TopOf(Brackets) * args.concentration.den) =>
     /\ \E i \in 1..Len(Brackets) :
           Covers(Brackets[i], args.concentration) /\ returned.aqi <= Brackets[i][4]
     /\ returned.aqi = 500 => args.concentration.num = TopOf(Brackets) * args.concentration.den

\* ------------------------------------------------------------------------
\* Properties of the 12-hour formatting (SpecFormat)
\* ------------------------------------------------------------------------

\* The table of the 24 hours, written out.
TwelveHour ==
  << <<49, 50, 32, 65, 77>>,
     <<49, 32, 65, 77>>,
     <<50, 32, 65, 77>>,
     <<51, 32, 65, 77>>,
     <<52, 32, 65, 77>>,
     <<53, 32, 65, 77>>,
     <<54, 32, 65, 77>>,
     <<55, 32, 65, 77>>,
     <<56, 32, 65, 77>>,
     <<57, 32, 65, 77>>,
     <<49, 48, 32, 65, 77>>,
     <<49, 49, 32, 65, 77>>,
     <<49, 50, 32, 80, 77>>,
     <<49, 32, 80, 77>>,
     <<50, 32, 80, 77>>,
     <<51, 32, 80, 77>>,
     <<52, 32, 80, 77>>,
     <<53, 32, 80, 77>>,
     <<54, 32, 80, 77>>,
     <<55, 32, 80, 77>>,
     <<56, 32, 80, 77>>,
     <<57, 32, 80, 77>>,
     <<49, 48, 32, 80, 77>>,
     <<49, 49, 32, 80, 77>> >>

\* C14: for every hour 0..23 each adapter formats a parsed start time by the
\* table (0 is "12 AM", 1..11 "{h} AM", 12 "12 PM", 13..23 "{h-12} PM"), and
\* all adapters give the same string for the same hour.
C14_TwelveHourTable ==
  returned.stage = 1 /\ args.function = "format" =>
    \A place \in FormatPlaces :
      /\ returned.records[place].exc = ""
      /\ returned.records[place].rec.time = TwelveHour[args.hour + 1]
      /\ \A other \in FormatPlaces :
            returned.records[place].rec.time = returned.records[other].rec.time

\* Noon with an offset has been formatted by every adapter.
C14_Witness ==
  /\ returned.stage = 1 /\ args.function = "format"
  /\ args.hour = 12 /\ args.suffix = <<45, 48, 56, 58, 48, 48>>
  /\ returned.records["seatgeek"].rec.time = <<49, 50, 32, 80, 77>>

\* ------------------------------------------------------------------------
\* More properties of the pipeline (SpecEvents)
\* ------------------------------------------------------------------------

\* The adapters returned records whose names are all text, some without a
\* time and some with one.
NullAndTextTimes ==
  /\ result.path # "none"
  /\ result.eventbrite.exc = "" /\ result.ticketmaster.exc = "" /\ result.seatgeek.exc = ""
  /\ \A i \in 1..Len(LiveEvents) : LiveEvents[i].name # None
  /\ \E i, j \in 1..Len(LiveEvents) :
        LiveEvents[i].time = None /\ LiveEvents[j].time # None

\* C15 (as claimed): when the adapters' records carry null times and text
\* times side by side, deduplication and sorting return a list and the call
\* does not fail.
C15_PipelineCompletes == NullAndTextTimes => result.exc = ""

\* C16: the adapters' lists are concatenated in the order Eventbrite,
\* Ticketmaster, SeatGeek, and every live record in the output is the first
\* record of that concatenation with its dedup key, so of two providers'
\* records with one key the higher-priority provider's is the one returned.
C16_ProviderPriority ==
  (Returns /\ result.path = "live") =>
    \A k \in 1..Len(result.events) :
      \E i \in 1..Len(LiveEvents) :
        /\ result.events[k] = LiveEvents[i]
        /\ \A j \in 1..Len(LiveEvents) :
              DedupKey(LiveEvents[j]) = DedupKey(LiveEvents[i]) => j >= i

\* Eventbrite and Ticketmaster both returned a record with one key, the two
\* records differ, and the output holds Eventbrite's.
C16_Witness ==
  /\ Returns /\ result.path = "live"
  /\ \E i \in 1..Len(result.eventbrite.events), j \in 1..Len(result.ticketmaster.events) :
        /\ DedupKey(result.eventbrite.events[i]) = DedupKey(result.ticketmaster.events[j])
        /\ result.eventbrite.events[i] # result.ticketmaster.events[j]
        /\ \E k \in 1..Len(result.events) : result.events[k] = result.eventbrite.events[i]
        /\ \A k \in 1..Len(result.events) : result.events[k] # result.ticketmaster.events[j]

\* ------------------------------------------------------------------------
\* Properties of the category filter (SpecFilter)
\* ------------------------------------------------------------------------

\* A keyword matches a field's text in either direction, case-insensitively.
MatchesEitherWay(match_term, text) ==
  Contains(match_term, Lower(text)) \/ Contains(Lower(text), match_term)

\* Some keyword of the requested category matches the type or the name.
KeywordMatches(event) ==
  \E terms \in {possible_matches(Strip(Lower(args.event_type)))} :
     \E k \in 1..Len(terms) :
        MatchesEitherWay(terms[k], event.type) \/ MatchesEitherWay(terms[k], event.name)

\* C17 (as claimed): a record passes _filter_events_by_type iff some keyword
\* of the category matches its type or its name, a match being a
\* case-insensitive substring match in either direction for both fields.
C17_CategoryFilter ==
  (returned.stage = 1 /\ args.function = "_filter_events_by_type") =>
    /\ returned.filtered.exc = ""
    /\ returned.filtered.events =
         AtIndices(args.events, {i \in 1..Len(args.events) : KeywordMatches(args.events[i])})

\* ------------------------------------------------------------------------
\* Properties of handlers run side by side (SpecThreads)
\* ------------------------------------------------------------------------

\* C19 (as claimed): at most one upstream weather call per cache window,
\* whatever the interleaving of the requests: once get_seattle_weather() has
\* been called and has answered, no handler calls it again for an instant
\* that is within CACHE_DURATION of the instant the first call was made for.
C19_OneCallPerWindow ==
  \A i, j \in 1..Len(upstream_log) :
     (i < j /\ upstream_log[i].ok) =>
        upstream_log[j].now - upstream_log[i].now > CACHE_DURATION

\* ------------------------------------------------------------------------
\* More properties of one adapter (SpecAdapter)
\* ------------------------------------------------------------------------

\* "{1..12} AM" or "{1..12} PM": no leading zero, no minutes.
IsTwelveHour(time) ==
  \E h \in 1..12 :
     \/ time = IntStr(h) \o <<32, 65, 77>>
     \/ time = IntStr(h) \o <<32, 80, 77>>

\* C21 (as claimed): in every record an adapter produces, time is null, the
\* literal "TBD", or "{1..12} AM" / "{1..12} PM", whatever start-time string
\* the provider sent, strings that fail ISO parsing included.
C21_TimeFormat ==
  adapter_result.called =>
    \A i \in 1..Len(adapter_result.events) :
       \/ adapter_result.events[i].time = None
       \/ adapter_result.events[i].time = TBD
       \/ IsTwelveHour(adapter_result.events[i].time)

\* A non-empty str: not None, not absent, not "".
NonEmptyText(v) == v # None /\ v # NoKey /\ v # <<>>

\* C22 (as claimed): in every record an adapter produces, name and area are
\* non-empty strings: a missing, null or empty title gets the placeholder
\* title, a missing, null or empty venue locality the city name.
C22_NameAndAreaSet ==
  adapter_result.called =>
    \A i \in 1..Len(adapter_result.events) :
       /\ NonEmptyText(adapter_result.events[i].name)
       /\ NonEmptyText(adapter_result.events[i].area)

\* ------------------------------------------------------------------------
\* Frame and order of the pipeline (SpecEvents)
\* ------------------------------------------------------------------------

\* How often the record e occurs in the list s.
Occurrences(e, s) == Cardinality({i \in 1..Len(s) : s[i] = e})

\* C23: on the live path every record of the output is field for field a
\* record one of the adapters returned, and none occurs more often than the
\* adapters returned it: deduplication, sorting, category filtering and
\* truncation drop and reorder records and change no field.
C23_OnlyFiltersAndReorders ==
  (Returns /\ result.path = "live") =>
    \A k \in 1..Len(result.events) :
       /\ result.events[k] \in Range(LiveEvents)
       /\ Occurrences(result.events[k], result.events)
            <= Occurrences(result.events[k], LiveEvents)

\* A live call with a category whose adapters returned three records: one
\* was dropped and the two returned ones changed places.
C23_Witness ==
  /\ Returns /\ result.path = "live" /\ Truthy(query.event_type)
  /\ Len(LiveEvents) = 3 /\ Len(result.events) = 2
  /\ \E i, j \in 1..Len(LiveEvents) :
        i < j /\ result.events[1] = LiveEvents[j] /\ result.events[2] = LiveEvents[i]

\* a <= b for two str values, in code point order.
StrLessEq(a, b) == a = b \/ StrLess(a, b)

\* The record e does not come after f in ascending (time, name) order; two
\* null times count as equal.
InOrder(e, f) ==
  \/ (e.time # f.time /\ StrLess(e.time, f.time))
  \/ (e.time = f.time /\ StrLessEq(e.name, f.name))

\* C24: on the live path the output of get_seattle_events is in ascending
\* order of (time, name) under string comparison of the formatted time; the
\* category filter and the truncation keep that order.
C24_SortedByTimeName ==
  (Returns /\ result.path = "live") =>
    \A k, m \in 1..Len(result.events) :
       k < m => InOrder(result.events[k], result.events[m])

\* A live call with a category returned two records with different times,
\* which the adapters had returned in the opposite order.
C24_Witness ==
  /\ Returns /\ result.path = "live" /\ Truthy(query.event_type)
  /\ Len(result.events) = 2
  /\ result.events[1].time # result.events[2].time
  /\ \E i, j \in 1..Len(LiveEvents) :
        i < j /\ result.events[1] = LiveEvents[j] /\ result.events[2] = LiveEvents[i]
        /\ LiveEvents[i] # LiveEvents[j]

\* ------------------------------------------------------------------------
\* More properties of the air quality index (SpecAqi)
\* ------------------------------------------------------------------------

\* The pollutants in their priority order, with the names the payload uses.
PollutantOrder ==
  << <<"pm2_5", "PM2.5">>, <<"pm10", "PM10">>, <<"o3", "O3">>, <<"no2", "NO2">>,
     <<"co", "CO">> >>

\* The air quality payload has been computed for a reading.
AirQualityComputed == returned.stage = 1 /\ args.function = "get_seattle_air_quality"

\* C25: the overall AQI is the maximum of the five per-pollutant AQIs, the
\* dominant pollutant is the first, in the order PM2.5, PM10, O3, NO2, CO,
\* whose AQI equals it, and label, colour and health-concern text are those
\* of the one category bucket that holds the overall AQI.
C25_MaxAndDominant ==
  AirQualityComputed =>
    LET q == returned.air_quality
    IN  /\ \A p \in DOMAIN q.aqi : q.aqi[p] <= q.epa_aqi
        /\ \E i \in 1..Len(PollutantOrder) :
              /\ q.aqi[PollutantOrder[i][1]] = q.epa_aqi
              /\ q.dominant_pollutant = PollutantOrder[i][2]
              /\ \A j \in 1..(i - 1) : q.aqi[PollutantOrder[j][1]] # q.epa_aqi
        /\ \E i \in 1..Len(EPA_AQI_CATEGORIES) :
              /\ EPA_AQI_CATEGORIES[i][1] <= q.epa_aqi /\ q.epa_aqi <= EPA_AQI_CATEGORIES[i][2]
              /\ \A j \in 1..Len(EPA_AQI_CATEGORIES) :
                    (EPA_AQI_CATEGORIES[j][1] <= q.epa_aqi /\ q.epa_aqi <= EPA_AQI_CATEGORIES[j][2])
                       => j = i
              /\ q.aqi_label = EPA_AQI_CATEGORIES[i][3].label
              /\ q.aqi_color = EPA_AQI_CATEGORIES[i][3].color
              /\ q.health_concern = EPA_AQI_CATEGORIES[i][3].health_concern

\* PM10 and NO2 share the highest index, 46, and PM10 is named.
C25_Witness ==
  /\ AirQualityComputed
  /\ returned.air_quality.aqi.pm10 = 46 /\ returned.air_quality.aqi.no2 = 46
  /\ returned.air_quality.epa_aqi = 46
  /\ returned.air_quality.dominant_pollutant = "PM10"
  /\ returned.air_quality.aqi_label = "Good"

\* ------------------------------------------------------------------------
\* Properties of get_seattle_air_quality on its own (SpecAirQuality)
\* ------------------------------------------------------------------------

\* C26: without the API key get_seattle_air_quality returns the fixed default
\* payload, label "Good" and AQI 50, and makes no call to the external
\* service.
C26_DefaultWithoutKey ==
  (returned.stage = 1 /\ ~args.has_key) =>
     /\ returned.payload.aqi = 50
     /\ returned.payload.aqi_label = "Good"
     /\ returned.payload = DefaultAirQuality
     /\ returned.requests = 0

\* The function has returned without key while the service would have
\* answered with a reading of 150 micrograms of PM2.5.
C26_Witness ==
  /\ returned.stage = 1 /\ ~args.has_key
  /\ args.answer = "ok" /\ args.components.pm2_5 = 15000

\* ------------------------------------------------------------------------
\* Properties of get_king_county_updates (SpecCounty)
\* ------------------------------------------------------------------------

\* The scraped texts of the call, those the scrapers returned before any
\* exception reached get_king_county_updates.
Scraped ==
  IF args.raised = "metro" THEN <<>>
  ELSE IF args.raised = "county" THEN args.metro_updates
  ELSE args.metro_updates \o args.county_news

\* The text names a traffic matter and nothing of Metro or transit.
TrafficOnly(update) ==
  /\ AnyIn(traffic_keywords, Lower(update))
  /\ ~AnyIn(metro_keywords, Lower(update))

\* C27: get_king_county_updates always returns a non-empty list, whether
\* scraping succeeds or fails, and when no scraped update survives the
\* keyword filter the list contains the fixed fallback advisory.
C27_NeverEmpty ==
  returned.stage = 1 =>
     /\ Len(returned.updates) >= 1
     /\ (\A i \in 1..Len(Scraped) : ~TrafficOnly(Scraped[i])) =>
           \E j \in 1..Len(returned.updates) : returned.updates[j] = DefaultAdvice

\* Both scrapers returned texts, none of them survived the filter, and the
\* call returned.
C27_Witness ==
  /\ returned.stage = 1 /\ args.raised = "none"
  /\ args.metro_updates = <<MetroDetour>>
  /\ args.county_news = <<NewsHoliday, NewsBudget>>
  /\ returned.updates = <<DefaultAdvice>>

\* ------------------------------------------------------------------------
\* The weather cache after a failed fetch (SpecApi)
\* ------------------------------------------------------------------------

\* The last request found the weather cache empty or expired, and the fetch
\* it made raised.
WeatherFetchRaised ==
  /\ request # NoRequest
  /\ \/ request.before.weather = NoValue
     \/ request.before.timestamp = NoTime
     \/ (request.at - request.before.timestamp) > CACHE_DURATION
  /\ get_seattle_weather(env.openweather, request.upstream.weather, request.at).exc # ""

\* C28: a weather fetch that raises during a request leaves the weather
\* cache and the shared timestamp as they were before the request, and the
\* next request fetches again: it either fails in the same way or stores a
\* payload fetched at its own instant.
C28_FailureNotStored ==
  /\ [](WeatherFetchRaised =>
          /\ response.status = "error"
          /\ _weather_cache = request.before.weather
          /\ _cache_timestamp = request.before.timestamp)
  /\ [][(WeatherFetchRaised /\ request' # request) =>
          \/ WeatherFetchRaised'
          \/ _weather_cache'.fetched_at = request'.at]_vars

\* A payload was cached, it expired, and the fetch of the request that
\* followed raised: the expired payload and its timestamp are still there.
C28_Witness ==
  /\ WeatherFetchRaised
  /\ env.openweather
  /\ request.before.weather # NoValue
  /\ _weather_cache = request.before.weather
  /\ _cache_timestamp = request.before.timestamp

\* ------------------------------------------------------------------------
\* Properties of the pagination loop (SpecPages)
\* ------------------------------------------------------------------------

\* The answer lets the loop go on: no exception, HTTP 200, status "OK" and a
\* token for the page after it.
GoesOn(next_response) ==
  /\ ~next_response.raises
  /\ next_response.status_code = 200
  /\ next_response.status = "OK"
  /\ Truthy(next_response.next_page_token)

\* C30: the pagination loop ends for every sequence of upstream responses,
\* makes at most two follow-up requests (three pages with the first), and
\* makes none after the first missing token, non-200 status, non-OK status
\* or exception.
C30_PaginationStops ==
  /\ <>(returned.stage = 2)
  /\ [](returned.stage >= 1 =>
          /\ Len(returned.seen) <= 2
          /\ returned.page_count <= 3
          /\ Len(returned.seen) >= 1 => Truthy(args.next_page_token)
          /\ \A i \in 1..(Len(returned.seen) - 1) : GoesOn(returned.seen[i]))

\* Three pages were read: both follow-up requests were answered with a
\* further token, and the loop ended on the page limit.
C30_Witness ==
  /\ returned.stage = 2
  /\ Len(returned.seen) = 2
  /\ GoesOn(returned.seen[2])
  /\ returned.places_to_process = 60

\* ------------------------------------------------------------------------
\* Properties of get_seattle_food_joints (SpecFood)
\* ------------------------------------------------------------------------

\* C29: with a price_range filter, every food joint returned has that
\* price_range, from the provider, from the placeholder list and after an
\* error; the placeholder and error paths return at most 20 joints.
C29_PriceFilter ==
  returned.stage = 1 =>
     /\ Truthy(args.price_range) =>
           \A i \in 1..Len(returned.food_joints) :
              returned.food_joints[i].price_range = args.price_range
     /\ returned.path # "live" => Len(returned.food_joints) <= 20

\* The provider answered with a "$" place and a place without price level;
\* the filter "$$" kept the second and dropped the first.
C29_Witness ==
  /\ returned.stage = 1 /\ returned.path = "live"
  /\ args.price_range = <<36, 36>>
  /\ args.answer.results = <<Places[1], Places[2]>>
  /\ Len(returned.food_joints) = 1
  /\ returned.food_joints[1].name = <<66>>

====
